---- MODULE Spec2Model ----
(***************************************************************************)
(* PanQPlex: per-file reconciliation (StatusCheckProvider) over the tag    *)
(* store of a media file (MetadataProvider) and the permission schema      *)
(* (metadata schemas).                                                     *)
(*                                                                         *)
(* Conventions of the model                                                *)
(*  - a tag map is a function from TagKeys to strings; NoVal stands for    *)
(*    Python's None / a key that is not in the dict;                       *)
(*  - sha256(...).hexdigest()[:16] is modelled as collision free on the    *)
(*    bounded domain: the digest of a string s is written "h[" s "]";      *)
(*  - time.time() is an input of the pass, drawn from 1..MaxTime.          *)
(*                                                                         *)
(* Specifications                                                          *)
(*  - Spec:      one file under repeated _check_single_file passes;        *)
(*  - SpecBatch: check_all_files over a list of files;                     *)
(*  - SpecPerm:  can_edit_key / get_editable_keys;                         *)
(*  - SpecStore: set_metadata / delete_metadata with their return values;  *)
(*  - SpecSync:  compare_metadata / sync_metadata;                         *)
(*  - SpecHash:  _calculate_metadata_hash on dicts in file order.          *)
(***************************************************************************)
EXTENDS Integers, Sequences, FiniteSets, TLC

(* ------------------------------ bounds --------------------------------- *)
MaxTime == 1

\* number of consecutive passes looked at after a repair
MaxPasses == 3

(* --------------------------- schema (metadata.schemas) ------------------ *)
NoVal == "<none>"

AUTOPREFIX_METADATA_KEY_NAMES == FALSE

pqp_prefix == "PQP:"

Inf == 1000

ROLES ==
  [noone |-> Inf, god |-> 99, system |-> 69, sync |-> 42, user |-> 11, mouse |-> 2]

RoleNames == DOMAIN ROLES

INTRINSIC_DATA ==
  [duration         |-> [key |-> "duration",         editable_by |-> "noone"],
   size             |-> [key |-> "size",             editable_by |-> "noone"],
   bit_rate         |-> [key |-> "bit_rate",         editable_by |-> "noone"],
   format_name      |-> [key |-> "format_name",      editable_by |-> "noone"],
   format_long_name |-> [key |-> "format_long_name", editable_by |-> "noone"],
   width            |-> [key |-> "width",            editable_by |-> "noone"],
   height           |-> [key |-> "height",           editable_by |-> "noone"],
   codec_name       |-> [key |-> "codec_name",       editable_by |-> "noone"],
   codec_type       |-> [key |-> "codec_type",       editable_by |-> "noone"],
   filename         |-> [key |-> "filename",         editable_by |-> "noone"],
   filepath         |-> [key |-> "filepath",         editable_by |-> "noone"]]

PQPCU ==
  [title       |-> [key |-> "title",     editable_by |-> "user"],
   description |-> [key |-> "comment",   editable_by |-> "user"],
   tags        |-> [key |-> "keywords",  editable_by |-> "user"],
   category    |-> [key |-> "genre",     editable_by |-> "user"],
   artist      |-> [key |-> "artist",    editable_by |-> "user"],
   album       |-> [key |-> "album",     editable_by |-> "user"],
   date        |-> [key |-> "date",      editable_by |-> "user"],
   copyright   |-> [key |-> "copyright", editable_by |-> "user"]]

PQPISA ==
  [upload_state    |-> [key |-> "PQP:upload_state",    editable_by |-> "system"],
   upload_progress |-> [key |-> "PQP:upload_progress", editable_by |-> "system"],
   file_uuid       |-> [key |-> "PQP:file_uuid",       editable_by |-> "system"],
   last_sync       |-> [key |-> "PQP:last_sync",       editable_by |-> "system"],
   platform_id     |-> [key |-> "PQP:platform_id",     editable_by |-> "system"],
   platform_url    |-> [key |-> "PQP:platform_url",    editable_by |-> "system"],
   upload_user     |-> [key |-> "PQP:upload_user",     editable_by |-> "user"],
   sync_hash       |-> [key |-> "PQP:sync_hash",       editable_by |-> "system"],
   retry_count     |-> [key |-> "PQP:retry_count",     editable_by |-> "system"],
   error_message   |-> [key |-> "PQP:error_message",   editable_by |-> "system"]]

\* {**INTRINSIC_DATA, **PQPCU, **PQPISA}: the three key sets are disjoint
get_all_metadata_keys == INTRINSIC_DATA @@ PQPCU @@ PQPISA

get_role_level(role) == IF role \in DOMAIN ROLES THEN ROLES[role] ELSE 0

\* mutant: only the role a key names may edit it
can_edit_key_exact(key, cardinal) ==
  IF key \notin DOMAIN get_all_metadata_keys
  THEN TRUE
  ELSE get_role_level(cardinal) = get_role_level(get_all_metadata_keys[key].editable_by)

can_edit_key(key, cardinal) ==
  IF key \notin DOMAIN get_all_metadata_keys
  THEN TRUE
  ELSE get_role_level(cardinal) >= get_role_level(get_all_metadata_keys[key].editable_by)

\* the keys of the dict get_editable_keys(cardinal) returns
get_editable_keys(cardinal) ==
  {key \in DOMAIN get_all_metadata_keys : can_edit_key(key, cardinal)}

\* the names that occur behind a "PQP:" prefix in the model: the schema
\* keys and "note", a name the schema does not know
PlainNames == DOMAIN get_all_metadata_keys \cup {"note"}

\* key[4:] when key.startswith("PQP:"), else key
StripPrefix(key) ==
  IF \E s \in PlainNames : key = pqp_prefix \o s
  THEN CHOOSE s \in PlainNames : key = pqp_prefix \o s
  ELSE key

\* first schema key that matches the key, its container key, or the
\* unprefixed key; no name matches two schema entries, so the first match
\* is the only match
normalize_key(key) ==
  LET clean == StripPrefix(key)
      match == {sk \in DOMAIN get_all_metadata_keys :
                  \/ clean = sk
                  \/ key = get_all_metadata_keys[sk].key
                  \/ clean = get_all_metadata_keys[sk].key}
  IN IF match # {} THEN CHOOSE sk \in match : TRUE ELSE key

(* ------------------------- status enums -------------------------------- *)
FileStatus ==
  {"undefined", "acknowledged", "provisioned", "queued_new",
   "uploading", "finished", "queued_edit", "hindered"}

\* FileStatus(upload_state) raises ValueError for any other string
IsFileStatus(s) == s \in FileStatus

(* --------------------- bounded universe of the model ------------------- *)
\* keys that occur in the tag map of the modelled file
TagKeys ==
  {"title", "upload_user", "upload_state", "platform_id", "platform_url",
   "sync_hash", "file_uuid", "last_sync", "error_message"}

\* TagKeys in the order sorted() gives them
SortedTagKeys ==
  <<"error_message", "file_uuid", "last_sync", "platform_id", "platform_url",
    "sync_hash", "title", "upload_state", "upload_user">>

\* the media file of the model
Paths == {"a.mp4"}

\* account names of the configuration; the upload_user tag may also name
\* a user ("alice") that has no account
Accounts == {"default"}

VideoIds == {"v1"}

NoTags == [k \in TagKeys |-> NoVal]

\* key spellings the adapter is called with directly, and the names of the
\* tags of the file it is pointed at: schema names, container key names,
\* PQP:-prefixed names, a name the schema does not know, a locked key
StoreKeys ==
  {"title", "comment", "upload_state", "PQP:upload_state",
   "note", "PQP:note", "duration"}

\* Python truthiness of an Optional[str]
Truthy(v) == v # NoVal /\ v # ""

\* mutant: the title is tested without .strip()
strip_identity(s) == s

\* str.strip() on the strings of the model
strip(s) == IF s \in {" ", "  "} THEN "" ELSE s

(* ------------------------ format_helper -------------------------------- *)
\* hashlib.sha256(path).hexdigest()[:4].upper()
format_uuid(file_path) ==
  CASE file_path = "a.mp4" -> "E6D4"
    [] file_path = "b.mkv" -> "1521"
    [] OTHER -> "0000"

(* ------------------------ MetadataProvider ----------------------------- *)
_get_actual_key(key) ==
  IF AUTOPREFIX_METADATA_KEY_NAMES /\ StripPrefix(key) = key
  THEN pqp_prefix \o key
  ELSE key

\* mutant: empty values are passed to ffmpeg like the others
_run_ffmpeg_metadata_update_keeps_empty(metadata) ==
  [k \in DOMAIN metadata |-> metadata[k]]

\* the tag map the container holds after a successful ffmpeg rewrite with
\* the given metadata: "-map_metadata -1" drops every old tag and only
\* the non-empty values are passed as "-metadata key=value"
_run_ffmpeg_metadata_update(metadata) ==
  [k \in DOMAIN metadata |-> IF metadata[k] = "" THEN NoVal ELSE metadata[k]]

get_metadata(m, key) ==
  IF key \in DOMAIN m /\ m[key] # NoVal THEN m[key]
  ELSE IF AUTOPREFIX_METADATA_KEY_NAMES
            /\ (pqp_prefix \o key) \in DOMAIN m /\ m[pqp_prefix \o key] # NoVal
       THEN m[pqp_prefix \o key]
       ELSE NoVal

\* the permission check of set_metadata / delete_metadata, tabulated for
\* the keys and roles of the model
MayEditTable ==
  [k \in TagKeys \cup StoreKeys, r \in RoleNames |->
     can_edit_key(normalize_key(k), r)]

MayEdit(key, cardinal) == MayEditTable[key, cardinal]

\* tag map of the file after set_metadata(key, value, cardinal) returned
set_metadata(m, key, value, cardinal) ==
  IF ~MayEdit(key, cardinal)
  THEN m
  ELSE _run_ffmpeg_metadata_update(
         [m EXCEPT ![_get_actual_key(key)] = IF value = NoVal THEN "" ELSE value])

\* tag map of the file after delete_metadata(key, cardinal) returned
delete_metadata(m, key, cardinal) ==
  IF ~MayEdit(key, cardinal) \/ m[key] = NoVal
  THEN m
  ELSE _run_ffmpeg_metadata_update([m EXCEPT ![key] = NoVal])

(* ------------------------ fingerprint ---------------------------------- *)
\* mutant: the fingerprint is taken over the keys "system" may edit
UserHashedKeys_system == {k \in TagKeys : can_edit_key(k, "system")}

\* the keys of the model that pass "if can_edit_key(key, 'user')"
UserHashedKeys == {k \in TagKeys : can_edit_key(k, "user")}

\* str(sorted(user_metadata.items())) restricted to the keys "user" may edit
RECURSIVE SerializeFrom(_, _)
SerializeFrom(m, i) ==
  IF i > Len(SortedTagKeys) THEN ""
  ELSE LET k == SortedTagKeys[i]
       IN (IF m[k] # NoVal /\ k \in UserHashedKeys
           THEN "(" \o k \o "," \o m[k] \o ")"
           ELSE "")
          \o SerializeFrom(m, i + 1)

_calculate_metadata_hash(m) == "h[" \o SerializeFrom(m, 1) \o "]"

(* ------------------------ StatusCheckProvider -------------------------- *)
VARIABLES
  file_path,          \* the media file the provider is pointed at
  youtube_providers,  \* accounts with an authenticated YouTubeProvider
  tags,               \* the tag map embedded in the file (format.tags)
  remote,             \* video ids for which the platform holds a record
  pre,                \* tag map at the start of the last pass
  res                 \* FileStatusInfo returned by the last pass

vars == <<file_path, youtube_providers, tags, remote, pre, res>>

\* state of the other components of the model; each specification moves
\* the variables of its own component and leaves the others alone
VARIABLES
  bt_files,    \* check_all_files: the file_paths argument
  bt_exists,   \* check_all_files: the paths for which file_exists() holds
  bt_tags,     \* check_all_files: tag map of every file
  bt_i,        \* check_all_files: number of loop iterations done
  bt_results,  \* check_all_files: the results list
  perm,        \* can_edit_key: last arguments and answers
  st_tags,     \* MetadataProvider: tag map of the file of the adapter
  st_temp,     \* MetadataProvider: the temporary file exists
  st_last,     \* MetadataProvider: last call and what it returned
  hs           \* _calculate_metadata_hash: last arguments and digests

batchVars == <<bt_files, bt_exists, bt_tags, bt_i, bt_results>>

storeVars == <<st_tags, st_temp, st_last>>

\* the upload side: each of the three is one record
VARIABLES
  yt,   \* YouTubeProvider: quota, upload in progress, last operation
  br,   \* bridge.upload_video: the retry loop
  ss    \* engine.run_session: jobs, state store, position in the loop

uploaderVars == <<yt, br, ss>>

allVars == <<vars, batchVars, perm, storeVars, hs, uploaderVars>>

\* values of the variables of a component nothing has been called on
BatchIdle ==
  /\ bt_files = <<>>
  /\ bt_exists = {}
  /\ bt_tags = <<>>
  /\ bt_i = 0
  /\ bt_results = <<>>

PermIdle == perm = [op |-> "idle"]

StoreIdle ==
  /\ st_tags = <<>>
  /\ st_temp = FALSE
  /\ st_last = [op |-> "idle"]

HashIdle == hs = [op |-> "idle"]

UploaderIdle ==
  /\ yt = [pc |-> "none"]
  /\ br = [pc |-> "none"]
  /\ ss = [pc |-> "none"]

ReconIdle ==
  /\ file_path = "a.mp4"
  /\ youtube_providers = {}
  /\ tags = <<>>
  /\ remote = {}
  /\ pre = <<>>
  /\ res = [ran |-> FALSE]

\* what a pass can run into: nothing, a failing ffprobe, a videos().list
\* call answered with no items / HttpError / exhausted quota ("api_none"),
\* a videos().list call raising another exception ("api_raise"), or a
\* failing ffmpeg rewrite in the set_metadata call for one of the keys
WriteKeys ==
  {"file_uuid", "upload_state", "platform_id", "platform_url", "sync_hash",
   "last_sync", "error_message"}

Faults == {"none", "ffprobe", "api_none", "api_raise"} \cup WriteKeys

NoResult ==
  [ran |-> FALSE, raised |-> FALSE, local_status |-> NoVal,
   needs_upload |-> FALSE, needs_update |-> FALSE, error_message |-> NoVal,
   video_id |-> NoVal, platform_url |-> NoVal, remote_status |-> NoVal,
   sync_hash |-> NoVal, last_sync |-> NoVal, lookup |-> "skipped"]

\* FileStatusInfo(file_path, local_status=FileStatus(upload_state), ...)
FileStatusInfo(m, upload_state) ==
  [NoResult EXCEPT !.ran = TRUE,
                   !.local_status = upload_state,
                   !.video_id = get_metadata(m, "platform_id"),
                   !.platform_url = get_metadata(m, "platform_url"),
                   !.last_sync = get_metadata(m, "last_sync"),
                   !.sync_hash = get_metadata(m, "sync_hash")]

\* the except branch of _check_single_file
ExceptionResult(text) ==
  [NoResult EXCEPT !.ran = TRUE, !.raised = TRUE,
                   !.local_status = "hindered",
                   !.error_message = "Error checking file: " \o text]

\* YouTubeProvider.get_video_info as the pass sees it:
\* "found", "none" (returns None) or "raise"
get_video_info(video_id, rem, fault) ==
  CASE fault = "api_raise" -> "raise"
    [] fault = "api_none"  -> "none"
    [] OTHER -> IF video_id \in rem THEN "found" ELSE "none"

RemotePrivacy == "private"

WatchUrl(video_id) == "https://www.youtube.com/watch?v=" \o video_id

_handle_undefined_file(info) ==
  [info EXCEPT !.local_status = "acknowledged", !.needs_upload = FALSE]

\* mutant: a blank title is reported as an error
_handle_local_only_file_hinders(info, m) ==
  LET title == get_metadata(m, "title")
  IN IF Truthy(title) /\ Truthy(strip(title))
     THEN [info EXCEPT !.local_status = "queued_new", !.needs_upload = TRUE]
     ELSE [info EXCEPT !.local_status = "hindered", !.needs_upload = FALSE]

_handle_local_only_file(info, m) ==
  LET title == get_metadata(m, "title")
  IN IF Truthy(title) /\ Truthy(strip(title))
     THEN [info EXCEPT !.local_status = "queued_new", !.needs_upload = TRUE]
     ELSE [info EXCEPT !.local_status = "provisioned", !.needs_upload = FALSE]

\* mutant: "still queued for upload" does not ask for the upload
_handle_pending_upload_no_action(info, upload_user, provs, rem, fault) ==
  IF upload_user \in provs
  THEN IF Truthy(info.video_id)
       THEN LET video_info == get_video_info(info.video_id, rem, fault)
            IN IF video_info = "found"
               THEN [info EXCEPT !.local_status = "finished",
                                 !.remote_status = RemotePrivacy,
                                 !.platform_url = WatchUrl(info.video_id),
                                 !.needs_upload = FALSE,
                                 !.lookup = video_info]
               ELSE [info EXCEPT !.local_status = "hindered",
                                 !.error_message = "Uploaded video not found",
                                 !.lookup = video_info]
       ELSE info
  ELSE [info EXCEPT !.local_status = "hindered",
                    !.error_message =
                        "Upload user '" \o upload_user \o "' not available"]

_handle_pending_upload(info, upload_user, provs, rem, fault) ==
  IF upload_user \in provs
  THEN IF Truthy(info.video_id)
       THEN LET video_info == get_video_info(info.video_id, rem, fault)
            IN IF video_info = "found"
               THEN [info EXCEPT !.local_status = "finished",
                                 !.remote_status = RemotePrivacy,
                                 !.platform_url = WatchUrl(info.video_id),
                                 !.needs_upload = FALSE,
                                 !.lookup = video_info]
               ELSE [info EXCEPT !.local_status = "hindered",
                                 !.error_message = "Uploaded video not found",
                                 !.lookup = video_info]
       ELSE [info EXCEPT !.needs_upload = TRUE]
  ELSE [info EXCEPT !.local_status = "hindered",
                    !.error_message =
                        "Upload user '" \o upload_user \o "' not available"]

\* mutant: the test of the lookup result is inverted
_handle_finished_file_inverted(info, current_hash, upload_user, provs, rem, fault) ==
  IF current_hash # info.sync_hash
  THEN [info EXCEPT !.local_status = "queued_edit", !.needs_update = TRUE]
  ELSE IF upload_user \in provs /\ Truthy(info.video_id)
       THEN LET video_info == get_video_info(info.video_id, rem, fault)
            IN IF video_info # "found"
               THEN [info EXCEPT !.remote_status = RemotePrivacy,
                                 !.lookup = video_info]
               ELSE [info EXCEPT !.local_status = "hindered",
                                 !.error_message = "Remote video no longer exists",
                                 !.lookup = video_info]
       ELSE info

_handle_finished_file(info, current_hash, upload_user, provs, rem, fault) ==
  IF current_hash # info.sync_hash
  THEN [info EXCEPT !.local_status = "queued_edit", !.needs_update = TRUE]
  ELSE IF upload_user \in provs /\ Truthy(info.video_id)
       THEN LET video_info == get_video_info(info.video_id, rem, fault)
            IN IF video_info = "found"
               THEN [info EXCEPT !.remote_status = RemotePrivacy,
                                 !.lookup = video_info]
               ELSE [info EXCEPT !.local_status = "hindered",
                                 !.error_message = "Remote video no longer exists",
                                 !.lookup = video_info]
       ELSE info

_handle_problematic_file(info, upload_user, provs) ==
  IF info.local_status = "queued_edit"
  THEN IF upload_user \in provs /\ Truthy(info.video_id)
       THEN [info EXCEPT !.needs_update = TRUE]
       ELSE [info EXCEPT !.local_status = "hindered",
                         !.error_message = "Cannot update remote video"]
  ELSE info

\* the if/elif chain of _check_single_file
Dispatch(m, upload_state, upload_user, current_hash, provs, rem, fault) ==
  LET info == FileStatusInfo(m, upload_state)
  IN CASE upload_state = "undefined" -> _handle_undefined_file(info)
       [] upload_state \in {"acknowledged", "provisioned"} ->
            _handle_local_only_file(info, m)
       [] upload_state \in {"queued_new", "uploading"} ->
            _handle_pending_upload(info, upload_user, provs, rem, fault)
       [] upload_state = "finished" ->
            _handle_finished_file(info, current_hash, upload_user, provs, rem, fault)
       [] upload_state \in {"queued_edit", "hindered"} ->
            _handle_problematic_file(info, upload_user, provs)
       [] OTHER -> info

\* one metadata_provider.set_metadata(key, value, "system") of
\* _update_file_metadata; s = [t: tag map so far, ok: no exception so far]
WriteStep(s, cond, key, value, fault) ==
  IF ~s.ok \/ ~cond THEN s
  ELSE IF fault = key THEN [t |-> s.t, ok |-> FALSE]
  ELSE [t |-> set_metadata(s.t, key, value, "system"), ok |-> TRUE]

\* mutant: the file_uuid write is left out
UpdateFileUuid_skip(s, path, fault) == s

\* "Update file UUID if not set"
UpdateFileUuid(s, path, fault) ==
  WriteStep(s, ~Truthy(get_metadata(s.t, "file_uuid")),
            "file_uuid", format_uuid(path), fault)

\* "Update upload state"
UpdateUploadState(s, info, fault) ==
  WriteStep(s, TRUE, "upload_state", info.local_status, fault)

\* "Update platform information if available"
UpdatePlatformInfo(s, info, fault) ==
  LET a == WriteStep(s, Truthy(info.video_id), "platform_id", info.video_id, fault)
  IN WriteStep(a, Truthy(info.platform_url), "platform_url", info.platform_url, fault)

\* mutant: sync_hash is rewritten on every pass
UpdateSyncHash_always(s, info, fault) ==
  WriteStep(s, TRUE, "sync_hash", _calculate_metadata_hash(s.t), fault)

\* "Update sync hash for finished files"
UpdateSyncHash(s, info, fault) ==
  WriteStep(s, info.local_status = "finished",
            "sync_hash", _calculate_metadata_hash(s.t), fault)

\* "Update last sync time"
UpdateLastSync(s, now, fault) ==
  WriteStep(s, TRUE, "last_sync", ToString(now), fault)

\* mutant: the error message is cleared whatever the status
UpdateErrorMessage_clear(s, info, fault) ==
  WriteStep(s, TRUE, "error_message", "", fault)

\* "Clear error message if status improved"
UpdateErrorMessage(s, info, fault) ==
  IF info.local_status # "hindered"
  THEN WriteStep(s, TRUE, "error_message", "", fault)
  ELSE WriteStep(s, Truthy(info.error_message),
                 "error_message", info.error_message, fault)

_update_file_metadata(m, path, info, now, fault) ==
  LET s0 == [t |-> m, ok |-> TRUE]
      s1 == UpdateFileUuid(s0, path, fault)
      s2 == UpdateUploadState(s1, info, fault)
      s4 == UpdatePlatformInfo(s2, info, fault)
      s5 == UpdateSyncHash(s4, info, fault)
      s6 == UpdateLastSync(s5, now, fault)
  IN UpdateErrorMessage(s6, info, fault)

\* _check_single_file: <<tag map after the pass, FileStatusInfo returned>>
_check_single_file(m, path, provs, rem, now, fault) ==
  IF fault = "ffprobe"
  THEN <<m, ExceptionResult("FFprobe failed")>>
  ELSE
    LET stored       == get_metadata(m, "upload_state")
        upload_state == IF Truthy(stored) THEN stored ELSE "undefined"
        stored_user  == get_metadata(m, "upload_user")
        upload_user  == IF Truthy(stored_user) THEN stored_user ELSE "default"
    IN IF ~IsFileStatus(upload_state)
       THEN <<m, ExceptionResult("'" \o upload_state \o "' is not a valid FileStatus")>>
       ELSE
         LET current_hash == _calculate_metadata_hash(m)
             info == Dispatch(m, upload_state, upload_user, current_hash,
                              provs, rem, fault)
         IN IF info.lookup = "raise"
            THEN <<m, [ExceptionResult("videos.list failed") EXCEPT !.lookup = "raise"]>>
            ELSE LET w == _update_file_metadata(m, path, info, now, fault)
                 IN IF w.ok THEN <<w.t, info>>
                    ELSE <<w.t, ExceptionResult("FFmpeg failed")>>

(* ------------------------------ inputs --------------------------------- *)
TitleValues == {"", " ", "Trip"}

\* set_metadata calls made on the file between passes: the user's edits
\* (one of them not authorized) and the uploader's bookkeeping writes
Writes ==
  ({"title"} \X TitleValues \X {"user"})
    \cup {<<"upload_user", "alice", "user">>, <<"upload_user", "", "user">>}
    \cup {<<"upload_state", "finished", "user">>}
    \cup ({"upload_state"} \X (FileStatus \cup {"bogus"}) \X {"system"})
    \cup ({"platform_id"} \X VideoIds \X {"system"})

Deletes == {<<"title", "user">>, <<"sync_hash", "user">>}

(* ------------------------------ actions -------------------------------- *)
Init ==
  /\ file_path \in Paths
  /\ youtube_providers \in SUBSET Accounts
  /\ tags = NoTags
  /\ remote = {}
  /\ pre = NoTags
  /\ res = NoResult
  /\ BatchIdle /\ PermIdle /\ StoreIdle /\ HashIdle /\ UploaderIdle

SetMetadata ==
  \E w \in Writes :
    /\ tags' = set_metadata(tags, w[1], w[2], w[3])
    /\ pre' = tags'
    /\ res' = NoResult
    /\ UNCHANGED <<file_path, youtube_providers, remote>>
    /\ UNCHANGED <<batchVars, perm, storeVars, hs, uploaderVars>>

DeleteMetadata ==
  \E d \in Deletes :
    /\ tags' = delete_metadata(tags, d[1], d[2])
    /\ pre' = tags'
    /\ res' = NoResult
    /\ UNCHANGED <<file_path, youtube_providers, remote>>
    /\ UNCHANGED <<batchVars, perm, storeVars, hs, uploaderVars>>

\* StatusCheckProvider() is constructed anew for every run: the accounts
\* that are enabled and authenticated at that time get a provider
_initialize_providers ==
  \E p \in SUBSET Accounts :
    /\ p # youtube_providers
    /\ youtube_providers' = p
    /\ pre' = tags
    /\ res' = NoResult
    /\ UNCHANGED <<file_path, tags, remote>>
    /\ UNCHANGED <<batchVars, perm, storeVars, hs, uploaderVars>>

\* the platform gains the record of an id (an upload completed)
RemoteInsert ==
  \E v \in VideoIds \ remote :
    /\ remote' = remote \cup {v}
    /\ pre' = tags
    /\ res' = NoResult
    /\ UNCHANGED <<file_path, youtube_providers, tags>>
    /\ UNCHANGED <<batchVars, perm, storeVars, hs, uploaderVars>>

\* the platform loses the record of an id (deleted on the platform)
RemoteDelete ==
  \E v \in remote :
    /\ remote' = remote \ {v}
    /\ pre' = tags
    /\ res' = NoResult
    /\ UNCHANGED <<file_path, youtube_providers, tags>>
    /\ UNCHANGED <<batchVars, perm, storeVars, hs, uploaderVars>>

CheckSingleFile ==
  \E now \in 1..MaxTime, fault \in Faults :
    LET out == _check_single_file(tags, file_path, youtube_providers, remote, now, fault)
    IN /\ tags' = out[1]
       /\ res' = out[2]
       /\ pre' = tags
       /\ UNCHANGED <<file_path, youtube_providers, remote>>
       /\ UNCHANGED <<batchVars, perm, storeVars, hs, uploaderVars>>

Next ==
  \/ SetMetadata
  \/ DeleteMetadata
  \/ _initialize_providers
  \/ RemoteInsert
  \/ RemoteDelete
  \/ CheckSingleFile

Spec == Init /\ [][Next]_vars

(* ----------------------- check_all_files (batch) ------------------------ *)
MaxBatch == 2

\* the media files a batch can name
BatchPaths == {"a.mp4", "b.mkv"}

\* what a file of the batch can hold when the batch starts: never checked,
\* an upload_state that is no FileStatus, an upload in flight, an error
BatchStored ==
  {[NoTags EXCEPT !["title"] = "Trip", !["platform_id"] = "v1",
                  !["upload_state"] = s] :
     s \in {NoVal, "bogus", "queued_new", "hindered"}}

\* file_paths arguments of the model
BatchArgs == UNION {[1..n -> BatchPaths] : n \in 0..MaxBatch}

\* mutant: an exception inside the pass aborts the loop
check_all_files_iteration_abort(results, path, exists, out) ==
  IF path \in exists /\ ~out[2].info.raised
  THEN Append(results, out[2])
  ELSE results

\* one iteration of "for file_path in file_paths": results afterwards;
\* out is what _check_single_file gives for the file, with the path, the
\* tag map the pass started from and what it ran into noted in the result
check_all_files_iteration(results, path, exists, out) ==
  IF path \in exists
  THEN Append(results, out[2])
  ELSE results

InitBatch ==
  /\ bt_files = <<>>
  /\ bt_i = 0
  /\ bt_results = <<>>
  /\ bt_exists \in SUBSET BatchPaths
  /\ bt_tags \in [BatchPaths -> BatchStored]
  /\ youtube_providers \in SUBSET Accounts
  /\ remote \in SUBSET VideoIds
  /\ file_path = "a.mp4" /\ tags = <<>> /\ pre = <<>> /\ res = [ran |-> FALSE]
  /\ PermIdle /\ StoreIdle /\ HashIdle /\ UploaderIdle

\* check_all_files(file_paths) is entered: results = []
check_all_files ==
  \E args \in BatchArgs :
    /\ bt_files = <<>>
    /\ bt_files' = args
    /\ bt_i' = 0
    /\ bt_results' = <<>>
    /\ UNCHANGED <<bt_exists, bt_tags>>
    /\ UNCHANGED <<vars, perm, storeVars, hs, uploaderVars>>

\* the next iteration of the loop of check_all_files
check_all_files_loop ==
  \E fault \in Faults :
    /\ bt_i < Len(bt_files)
    /\ LET path == bt_files[bt_i + 1]
           ret == _check_single_file(bt_tags[path], path, youtube_providers,
                                     remote, bt_i + 1, fault)
           out == <<ret[1], [file_path |-> path, info |-> ret[2],
                             before |-> bt_tags[path], fault |-> fault]>>
       IN /\ bt_results' =
               check_all_files_iteration(bt_results, path, bt_exists, out)
          /\ bt_tags' = IF path \in bt_exists
                        THEN [bt_tags EXCEPT ![path] = out[1]]
                        ELSE bt_tags
    /\ bt_i' = bt_i + 1
    /\ UNCHANGED <<bt_files, bt_exists>>
    /\ UNCHANGED <<vars, perm, storeVars, hs, uploaderVars>>

NextBatch == check_all_files \/ check_all_files_loop

SpecBatch == InitBatch /\ [][NextBatch]_allVars

(* ----------------------- permission check (schema) ---------------------- *)
\* key arguments: every schema key and a key the schema does not know
PermKeys == DOMAIN get_all_metadata_keys \cup {"note"}

\* cardinal arguments: every role and a name that is no role
PermRoles == RoleNames \cup {"guest"}

InitPerm ==
  /\ PermIdle
  /\ ReconIdle /\ BatchIdle /\ StoreIdle /\ HashIdle /\ UploaderIdle

\* can_edit_key(key, r1) and can_edit_key(key, r2)
CanEditKey ==
  \E key \in PermKeys, r1 \in PermRoles, r2 \in PermRoles :
    /\ perm' = [op |-> "can_edit_key", key |-> key, r1 |-> r1, r2 |-> r2,
                e1 |-> can_edit_key(key, r1), e2 |-> can_edit_key(key, r2)]
    /\ UNCHANGED <<vars, batchVars, storeVars, hs, uploaderVars>>

\* get_editable_keys(r1) and get_editable_keys(r2)
GetEditableKeys ==
  \E r1 \in PermRoles, r2 \in PermRoles :
    /\ perm' = [op |-> "get_editable_keys", r1 |-> r1, r2 |-> r2,
                ks1 |-> get_editable_keys(r1), ks2 |-> get_editable_keys(r2)]
    /\ UNCHANGED <<vars, batchVars, storeVars, hs, uploaderVars>>

NextPerm == CanEditKey \/ GetEditableKeys

SpecPerm == InitPerm /\ [][NextPerm]_allVars

(* ----------------------- MetadataProvider (calls) ----------------------- *)
\* Python values the adapter is called with: type and str() of the value
PyNone == [type |-> "NoneType", str |-> "None"]

PyStr(x) == [type |-> "str", str |-> x]

PyInt7 == [type |-> "int", str |-> "7"]

\* str(value)
str(value) == value.str

\* what ffmpeg can do: succeed, fail before it has created the output
\* file, or fail having written part of it
MuxFaults == {"none", "fail_no_output", "fail_partial_output"}

Stderr == "moov atom not found"

\* mutant: the except branch does not unlink the temporary file
_run_ffmpeg_outcome_keeps_temp(file, metadata, fault) ==
  IF fault = "none"
  THEN [tags |-> _run_ffmpeg_metadata_update(metadata), temp |-> FALSE,
        ret |-> "True", error |-> NoVal, rewrites |-> 1]
  ELSE [tags |-> file, temp |-> (fault = "fail_partial_output"),
        ret |-> "raise", error |-> "FFmpeg failed: " \o Stderr, rewrites |-> 0]

\* _run_ffmpeg_metadata_update(metadata) on a file holding the tag map
\* file: tag map of the original afterwards, whether the temporary file
\* is left, what the call returns ("raise": RuntimeError with the text in
\* error), and the number of times the original was replaced
_run_ffmpeg_outcome(file, metadata, fault) ==
  IF fault = "none"
  THEN [tags |-> _run_ffmpeg_metadata_update(metadata), temp |-> FALSE,
        ret |-> "True", error |-> NoVal, rewrites |-> 1]
  ELSE [tags |-> file, temp |-> FALSE,
        ret |-> "raise", error |-> "FFmpeg failed: " \o Stderr, rewrites |-> 0]

\* "return False" before anything is read or written
ReturnFalse(m) ==
  [tags |-> m, temp |-> FALSE, ret |-> "False", error |-> NoVal, rewrites |-> 0]

\* mutant: the permission check is made on the key as spelled
set_metadata_outcome_raw_key(m, key, value, cardinal, fault) ==
  IF ~can_edit_key(key, cardinal)
  THEN ReturnFalse(m)
  ELSE _run_ffmpeg_outcome(
         m, [m EXCEPT ![_get_actual_key(key)] =
                        IF value.type = "NoneType" THEN "" ELSE str(value)],
         fault)

\* set_metadata(key, value, cardinal) with its return value
set_metadata_outcome(m, key, value, cardinal, fault) ==
  IF ~MayEdit(key, cardinal)
  THEN ReturnFalse(m)
  ELSE _run_ffmpeg_outcome(
         m, [m EXCEPT ![_get_actual_key(key)] =
                        IF value.type = "NoneType" THEN "" ELSE str(value)],
         fault)

\* delete_metadata(key, cardinal) with its return value
delete_metadata_outcome(m, key, cardinal, fault) ==
  IF ~MayEdit(key, cardinal) \/ m[key] = NoVal
  THEN ReturnFalse(m)
  ELSE _run_ffmpeg_outcome(m, [m EXCEPT ![key] = NoVal], fault)

\* tag maps of the file the adapter is pointed at
NoStoreTags == [k \in StoreKeys |-> NoVal]

StoreInitial ==
  {NoStoreTags,
   [NoStoreTags EXCEPT !["title"] = "A", !["PQP:upload_state"] = "finished"]}

StoreRoles == {"mouse", "user"}

\* arguments of the set_metadata calls of the model
StoreSets ==
  (StoreKeys \X {PyNone, PyStr(""), PyStr("A")} \X StoreRoles)
    \cup ({"title"} \X {PyInt7, PyStr("B")} \X StoreRoles)

InitStore ==
  /\ st_tags \in StoreInitial
  /\ st_temp = FALSE
  /\ st_last = [op |-> "idle"]
  /\ ReconIdle /\ BatchIdle /\ PermIdle /\ HashIdle /\ UploaderIdle

StoreSetMetadata ==
  \E c \in StoreSets, fault \in MuxFaults :
    LET out == set_metadata_outcome(st_tags, c[1], c[2], c[3], fault)
    IN /\ st_tags' = out.tags
       /\ st_temp' = out.temp
       /\ st_last' = [op |-> "set_metadata", key |-> c[1], value |-> c[2],
                      cardinal |-> c[3], fault |-> fault, before |-> st_tags,
                      ret |-> out.ret, error |-> out.error,
                      rewrites |-> out.rewrites]
       /\ UNCHANGED <<vars, batchVars, perm, hs, uploaderVars>>

StoreDeleteMetadata ==
  \E key \in StoreKeys, cardinal \in StoreRoles, fault \in MuxFaults :
    LET out == delete_metadata_outcome(st_tags, key, cardinal, fault)
    IN /\ st_tags' = out.tags
       /\ st_temp' = out.temp
       /\ st_last' = [op |-> "delete_metadata", key |-> key, value |-> PyNone,
                      cardinal |-> cardinal, fault |-> fault,
                      before |-> st_tags, ret |-> out.ret,
                      error |-> out.error, rewrites |-> out.rewrites]
       /\ UNCHANGED <<vars, batchVars, perm, hs, uploaderVars>>

NextStore == StoreSetMetadata \/ StoreDeleteMetadata

SpecStore == InitStore /\ [][NextStore]_allVars

(* ------------------ MetadataProvider (compare and sync) ----------------- *)
\* a target dict is a function from StoreKeys to Python values; PyAbsent
\* marks a key the dict does not have
PyAbsent == [type |-> "absent", str |-> ""]

NoTarget == [k \in StoreKeys |-> PyAbsent]

\* dict.get(key) is None: the key is missing or maps to None
IsNone(value) == value.type \in {"absent", "NoneType"}

ffmpeg_mapping ==
  [title |-> "title", description |-> "comment", comment |-> "comment",
   tags |-> "keywords", keywords |-> "keywords", category |-> "genre",
   genre |-> "genre", artist |-> "artist", album |-> "album",
   date |-> "date", copyright |-> "copyright"]

_filter_editable_keys(metadata, cardinal) ==
  [key \in DOMAIN metadata |->
     IF metadata[key] # PyAbsent /\ MayEdit(key, cardinal)
     THEN metadata[key] ELSE PyAbsent]

normalize_key_local(key) == StripPrefix(key)

\* "can_edit_key(norm_key, cardinal)" of compare_metadata, on the key as
\* normalize_key_local left it, tabulated for the names of the model
LocalMayEditTable ==
  [k \in StoreKeys, r \in RoleNames |-> can_edit_key(k, r)]

\* the tag names of the file normalize_key_local maps to each name
LocalSpellings ==
  [n \in StoreKeys |-> {key \in StoreKeys : normalize_key_local(key) = n}]

\* normalized_current of compare_metadata (NoVal: not a key of the dict);
\* when the file has a tag under both spellings of a name the later one in
\* the file wins, prefixed_last says which one that is
normalized_current(m, cardinal, prefixed_last) ==
  [norm_key \in DOMAIN m |->
     LET from == {key \in LocalSpellings[norm_key] :
                    /\ m[key] # NoVal
                    /\ LocalMayEditTable[norm_key, cardinal]}
     IN IF from = {} THEN NoVal
        ELSE IF from = {norm_key} \/ (norm_key \in from /\ ~prefixed_last)
             THEN m[norm_key]
             ELSE m[CHOOSE key \in from \ {norm_key} : TRUE]]

\* the MetadataDelta of one key of all_keys
MetadataDelta(key, current_value, target_value) ==
  IF current_value = NoVal /\ ~IsNone(target_value)
  THEN [key |-> key, value |-> target_value, operation |-> "A"]
  ELSE IF current_value # NoVal /\ IsNone(target_value)
  THEN [key |-> key, value |-> PyStr(current_value), operation |-> "D"]
  ELSE IF current_value # NoVal /\ target_value # PyStr(current_value)
  THEN [key |-> key, value |-> target_value, operation |-> "C"]
  ELSE [key |-> key,
        value |-> IF current_value = NoVal THEN PyNone ELSE PyStr(current_value),
        operation |-> "E"]

\* the deltas compare_metadata returns, as a set (the list has one entry
\* for every element of the set all_keys)
compare_metadata(m, target_metadata, cardinal, prefixed_last) ==
  LET filtered_target == _filter_editable_keys(target_metadata, cardinal)
      current == normalized_current(m, cardinal, prefixed_last)
      all_keys == {key \in DOMAIN m : current[key] # NoVal}
                    \cup {key \in DOMAIN m : filtered_target[key] # PyAbsent}
  IN {MetadataDelta(key, current[key], filtered_target[key]) : key \in all_keys}

\* the body of "for delta in deltas" of sync_metadata
ApplyDelta(current_metadata, delta) ==
  CASE delta.operation = "D" ->
         LET keys_to_remove ==
               {delta.key, pqp_prefix \o delta.key}
                 \cup (IF delta.key \in DOMAIN ffmpeg_mapping
                       THEN {ffmpeg_mapping[delta.key]} ELSE {})
         IN [key \in DOMAIN current_metadata |->
               IF key \in keys_to_remove THEN NoVal ELSE current_metadata[key]]
    [] delta.operation \in {"A", "C"} ->
         [current_metadata EXCEPT ![_get_actual_key(delta.key)] = str(delta.value)]
    [] OTHER -> current_metadata

\* the deltas are visited in the iteration order of a set of strings, which
\* changes from run to run: the model takes the two orders below
SortedStoreKeys ==
  <<"PQP:note", "PQP:upload_state", "comment", "duration", "note", "title",
    "upload_state">>

DeltaOrders ==
  {SortedStoreKeys,
   [i \in 1..Len(SortedStoreKeys) |->
      SortedStoreKeys[Len(SortedStoreKeys) + 1 - i]]}

RECURSIVE ApplyDeltas(_, _, _, _)
ApplyDeltas(current_metadata, deltas, order, i) ==
  IF i > Len(order) THEN current_metadata
  ELSE LET here == {delta \in deltas : delta.key = order[i]}
       IN ApplyDeltas(IF here = {} THEN current_metadata
                      ELSE ApplyDelta(current_metadata, CHOOSE delta \in here : TRUE),
                      deltas, order, i + 1)

\* sync_metadata(target_metadata, cardinal) with its return value
sync_metadata_outcome(m, target_metadata, cardinal, prefixed_last, order, fault) ==
  LET filtered_target == _filter_editable_keys(target_metadata, cardinal)
      deltas == compare_metadata(m, filtered_target, cardinal, prefixed_last)
  IN _run_ffmpeg_outcome(m, ApplyDeltas(m, deltas, order, 1), fault)

\* target dicts of the model
SyncTargets ==
  {NoTarget,
   [NoTarget EXCEPT !["title"] = PyStr("A")],
   [NoTarget EXCEPT !["title"] = PyStr("")],
   [NoTarget EXCEPT !["title"] = PyInt7],
   [NoTarget EXCEPT !["PQP:note"] = PyStr("A")],
   [NoTarget EXCEPT !["note"] = PyStr("B"), !["upload_state"] = PyStr("A")],
   [NoTarget EXCEPT !["comment"] = PyNone]}

SyncInitial ==
  StoreInitial
    \cup {[NoStoreTags EXCEPT !["comment"] = "A", !["PQP:note"] = "A"]}

InitSync ==
  /\ st_tags \in SyncInitial
  /\ st_temp = FALSE
  /\ st_last = [op |-> "idle"]
  /\ ReconIdle /\ BatchIdle /\ PermIdle /\ HashIdle /\ UploaderIdle

StoreCompareMetadata ==
  \E target \in SyncTargets, cardinal \in StoreRoles, prefixed_last \in BOOLEAN :
    /\ st_last' = [op |-> "compare_metadata", target |-> target,
                   cardinal |-> cardinal,
                   deltas |-> compare_metadata(st_tags, target, cardinal,
                                               prefixed_last)]
    /\ UNCHANGED <<st_tags, st_temp>>
    /\ UNCHANGED <<vars, batchVars, perm, hs, uploaderVars>>

\* streak counts the successful calls in a row with the same arguments
StoreSyncMetadata ==
  \E target \in SyncTargets, cardinal \in StoreRoles, prefixed_last \in BOOLEAN,
     order \in DeltaOrders, fault \in MuxFaults :
    LET out == sync_metadata_outcome(st_tags, target, cardinal, prefixed_last,
                                     order, fault)
        again == /\ st_last.op = "sync_metadata"
                 /\ st_last.target = target /\ st_last.cardinal = cardinal
                 /\ st_last.ret = "True"
    IN /\ st_tags' = out.tags
       /\ st_temp' = out.temp
       /\ st_last' = [op |-> "sync_metadata", target |-> target,
                      cardinal |-> cardinal, before |-> st_tags,
                      ret |-> out.ret,
                      streak |-> IF out.ret # "True" THEN 0
                                 ELSE IF again /\ st_last.streak >= 1 THEN 2
                                 ELSE 1]
       /\ UNCHANGED <<vars, batchVars, perm, hs, uploaderVars>>

NextSync == StoreCompareMetadata \/ StoreSyncMetadata

SpecSync == InitSync /\ [][NextSync]_allVars

(* ------------------ _calculate_metadata_hash (dict order) --------------- *)
\* get_all_metadata() as Python sees it: a dict, here the sequence of its
\* (key, value) items in the order the file has the tags
MaxItems == 2

\* tag names of the files hashed: a key user may edit, and a key only
\* system may edit under its schema name and under its container key
HashKeys == {"title", "upload_state", "PQP:upload_state"}

\* HashKeys in the order Python compares strings
SortedHashKeys == <<"PQP:upload_state", "title", "upload_state">>

HashValues == {"A", "B"}

\* the dicts of the model: at most MaxItems items, no key twice
HashDicts ==
  {items \in UNION {[1..n -> HashKeys \X HashValues] : n \in 0..MaxItems} :
     \A i \in 1..Len(items), j \in 1..Len(items) :
       items[i][1] = items[j][1] => i = j}

\* user_metadata: the items whose key passes can_edit_key(key, "user"),
\* in the order of the dict
user_metadata(items) ==
  LET Editable(item) == can_edit_key(item[1], "user")
  IN SelectSeq(items, Editable)

\* mutant: the items are serialized in the order of the dict
sorted_unsorted(items) == items

\* sorted(items): the keys of a dict are distinct, so the tuples are
\* ordered by their key
sorted(items) ==
  LET HasKey(key) == \E i \in 1..Len(items) : items[i][1] = key
      ItemOf(key) == items[CHOOSE i \in 1..Len(items) : items[i][1] = key]
      keys == SelectSeq(SortedHashKeys, HasKey)
  IN [i \in 1..Len(keys) |-> ItemOf(keys[i])]

\* str() of a list of (key, value) tuples
RECURSIVE metadata_str(_, _)
metadata_str(items, i) ==
  IF i > Len(items) THEN ""
  ELSE "(" \o items[i][1] \o "," \o items[i][2] \o ")"
         \o metadata_str(items, i + 1)

\* _calculate_metadata_hash on a file whose tags are the given dict
calculate_metadata_hash(items) ==
  "h[" \o metadata_str(sorted(user_metadata(items)), 1) \o "]"

NoCall == [items |-> <<>>, digest |-> NoVal]

InitHash ==
  /\ hs = [op |-> "idle", prev |-> NoCall, last |-> NoCall]
  /\ ReconIdle /\ BatchIdle /\ PermIdle /\ StoreIdle /\ UploaderIdle

\* _calculate_metadata_hash is called on a file; hs keeps the last two calls
CalculateMetadataHash ==
  \E items \in HashDicts :
    /\ hs' = [op |-> "hash", prev |-> hs.last,
              last |-> [items |-> items,
                        digest |-> calculate_metadata_hash(items)]]
    /\ UNCHANGED <<vars, batchVars, perm, storeVars, uploaderVars>>

NextHash == CalculateMetadataHash

SpecHash == InitHash /\ [][NextHash]_allVars

(* ---------------------- YouTubeProvider (quota, calls) ------------------- *)
\* YouTubeQuota.daily_limit
daily_limit == 10000

\* local of _perform_resumable_upload
max_retries == 3

\* at most MaxOps operations are started on one provider
MaxOps == 2

\* a file is sent in at most MaxChunks chunks
MaxChunks == 2

QUOTA_COSTS ==
  [video_insert |-> 1600, video_update |-> 50, video_list |-> 1,
   channel_list |-> 1, playlist_insert |-> 50,
   playlist_items_insert |-> 50, thumbnail_set |-> 50]

\* QUOTA_COSTS.get(operation, 1)
QuotaCost(operation) ==
  IF operation \in DOMAIN QUOTA_COSTS THEN QUOTA_COSTS[operation] ELSE 1

\* the operations the provider charges
ChargedOps ==
  {"video_insert", "video_update", "video_list", "channel_list",
   "thumbnail_set"}

\* a quota is [used_today, operations]; day_passed says whether more than
\* 86400 s went by since last_reset.  The result is the quota after the
\* possible reset and the verdict.
_check_quota_ignores_cost(quota, operation, day_passed) ==
  LET q == IF day_passed THEN [quota EXCEPT !.used_today = 0] ELSE quota
  IN  [quota |-> q, ok |-> ~(q.used_today > daily_limit)]

_check_quota(quota, operation, day_passed) ==
  LET q == IF day_passed THEN [quota EXCEPT !.used_today = 0] ELSE quota
  IN  [quota |-> q,
       ok |-> ~(q.used_today + QuotaCost(operation) > daily_limit)]

_consume_quota(quota, operation) ==
  [used_today |-> quota.used_today + QuotaCost(operation),
   operations |-> [quota.operations EXCEPT ![operation] = @ + 1]]

\* validate_file: the message of the second component
ValidateMessages == {"Valid", "File does not exist"}

\* what request.execute() / next_chunk() can do
ExecuteOutcomes == {"ok", "http_error", "other_error"}
ListOutcomes == ExecuteOutcomes \cup {"ok_no_items"}

\* the result of one auxiliary call: the quota afterwards, what the caller
\* gets ("raise" when an exception leaves the method), the number of API
\* calls issued, what the quota check did, the used_today it saw, and
\* whether the API call returned
CallResult(quota, ret, api_calls, check, at_check, api_ok) ==
  [quota |-> quota, ret |-> ret, api_calls |-> api_calls,
   check |-> check, at_check |-> at_check, api_ok |-> api_ok]

get_channel_info(quota, channel_id, day_passed, outcome) ==
  IF ~channel_id
  THEN CallResult(quota, "None", 0, "none", quota.used_today, FALSE)
  ELSE
  LET c == _check_quota(quota, "channel_list", day_passed) IN
  IF ~c.ok
  THEN CallResult(c.quota, "None", 0, "block", c.quota.used_today, FALSE)
  ELSE CASE outcome = "ok" ->
              CallResult(_consume_quota(c.quota, "channel_list"), "item", 1,
                         "pass", c.quota.used_today, TRUE)
         [] outcome = "ok_no_items" ->
              CallResult(_consume_quota(c.quota, "channel_list"), "None", 1,
                         "pass", c.quota.used_today, TRUE)
         [] outcome = "http_error" ->
              CallResult(c.quota, "None", 1, "pass", c.quota.used_today, FALSE)
         [] OTHER ->
              CallResult(c.quota, "raise", 1, "pass", c.quota.used_today,
                         FALSE)

update_video_metadata(quota, day_passed, outcome) ==
  LET c == _check_quota(quota, "video_update", day_passed) IN
  IF ~c.ok
  THEN CallResult(c.quota, "False", 0, "block", c.quota.used_today, FALSE)
  ELSE CASE outcome = "ok" ->
              CallResult(_consume_quota(c.quota, "video_update"), "True", 1,
                         "pass", c.quota.used_today, TRUE)
         [] outcome = "http_error" ->
              CallResult(c.quota, "False", 1, "pass", c.quota.used_today,
                         FALSE)
         [] OTHER ->
              CallResult(c.quota, "raise", 1, "pass", c.quota.used_today,
                         FALSE)

\* get_video_info with its quota accounting
get_video_info_quota_eager(quota, day_passed, outcome) ==
  LET c == _check_quota(quota, "video_list", day_passed)
      q == _consume_quota(c.quota, "video_list")
  IN
  IF ~c.ok
  THEN CallResult(c.quota, "None", 0, "block", c.quota.used_today, FALSE)
  ELSE CASE outcome = "ok" ->
              CallResult(q, "item", 1, "pass", c.quota.used_today, TRUE)
         [] outcome = "ok_no_items" ->
              CallResult(q, "None", 1, "pass", c.quota.used_today, TRUE)
         [] outcome = "http_error" ->
              CallResult(q, "None", 1, "pass", c.quota.used_today, FALSE)
         [] OTHER ->
              CallResult(q, "raise", 1, "pass", c.quota.used_today, FALSE)

get_video_info_quota(quota, day_passed, outcome) ==
  LET c == _check_quota(quota, "video_list", day_passed) IN
  IF ~c.ok
  THEN CallResult(c.quota, "None", 0, "block", c.quota.used_today, FALSE)
  ELSE CASE outcome = "ok" ->
              CallResult(_consume_quota(c.quota, "video_list"), "item", 1,
                         "pass", c.quota.used_today, TRUE)
         [] outcome = "ok_no_items" ->
              CallResult(_consume_quota(c.quota, "video_list"), "None", 1,
                         "pass", c.quota.used_today, TRUE)
         [] outcome = "http_error" ->
              CallResult(c.quota, "None", 1, "pass", c.quota.used_today, FALSE)
         [] OTHER ->
              CallResult(c.quota, "raise", 1, "pass", c.quota.used_today,
                         FALSE)

\* no quota check and no consumption
delete_video(quota, outcome) ==
  CASE outcome = "ok" ->
         CallResult(quota, "True", 1, "none", quota.used_today, TRUE)
    [] outcome = "http_error" ->
         CallResult(quota, "False", 1, "none", quota.used_today, FALSE)
    [] OTHER ->
         CallResult(quota, "raise", 1, "none", quota.used_today, FALSE)

\* readable: whether MediaFileUpload can open thumbnail_path; it is built
\* inside the try, before the request is executed
set_thumbnail(quota, day_passed, readable, outcome) ==
  LET c == _check_quota(quota, "thumbnail_set", day_passed) IN
  IF ~c.ok
  THEN CallResult(c.quota, "False", 0, "block", c.quota.used_today, FALSE)
  ELSE IF ~readable
  THEN CallResult(c.quota, "raise", 0, "pass", c.quota.used_today, FALSE)
  ELSE CASE outcome = "ok" ->
              CallResult(_consume_quota(c.quota, "thumbnail_set"), "True", 1,
                         "pass", c.quota.used_today, TRUE)
         [] outcome = "http_error" ->
              CallResult(c.quota, "False", 1, "pass", c.quota.used_today,
                         FALSE)
         [] OTHER ->
              CallResult(c.quota, "raise", 1, "pass", c.quota.used_today,
                         FALSE)

\* --- upload_video ---
\* the locals of _perform_resumable_upload, with three counters kept for
\* the properties: attempts (next_chunk calls), transients (retryable
\* failures among them) and first_ok (number of the first call that did not
\* fail, 0 while there is none)
NoUpload == [active |-> FALSE]

NewUpload(chunks, before, at_check) ==
  [active |-> TRUE, response |-> FALSE, error |-> "none", retry_count |-> 0,
   chunks |-> chunks, chunks_left |-> chunks, attempts |-> 0,
   transients |-> 0, first_ok |-> 0, before |-> before,
   at_check |-> at_check]

\* while response is None and retry_count < max_retries (break on error)
_perform_resumable_upload_loop_inclusive(up) ==
  ~up.response /\ up.error = "none" /\ up.retry_count <= max_retries

\* without the two break statements
_perform_resumable_upload_loop_no_break(up) ==
  ~up.response /\ up.retry_count < max_retries

_perform_resumable_upload_loop(up) ==
  ~up.response /\ up.error = "none" /\ up.retry_count < max_retries

\* one iteration of the loop; outcome is what next_chunk() does
ChunkOutcomes == {"ok", "transient", "http_error", "other_error"}

_perform_resumable_upload_step(up, outcome) ==
  LET n == up.attempts + 1 IN
  CASE outcome = "ok" ->
         [up EXCEPT !.attempts = n,
                    !.chunks_left = @ - 1,
                    !.response = (up.chunks_left = 1),
                    !.first_ok = IF @ = 0 THEN n ELSE @]
    [] outcome = "transient" ->
         [up EXCEPT !.attempts = n, !.transients = @ + 1,
                    !.retry_count = @ + 1]
    [] OTHER ->
         [up EXCEPT !.attempts = n, !.error = outcome]

\* the last finished operation
NoOperation == [op |-> "none"]

UploadResult(state, error_message, video_id, up, before, check, at_check) ==
  [op |-> "upload_video", operation |-> "video_insert", state |-> state,
   error_message |-> error_message, video_id |-> video_id,
   ran |-> up.active,
   attempts |-> IF up.active THEN up.attempts ELSE 0,
   transients |-> IF up.active THEN up.transients ELSE 0,
   first_ok |-> IF up.active THEN up.first_ok ELSE 0,
   chunks |-> IF up.active THEN up.chunks ELSE 0,
   api_calls |-> IF up.active THEN up.attempts ELSE 0,
   api_ok |-> state = "completed", ret |-> state, before |-> before, check |-> check,
   at_check |-> at_check]

AuxResult(op, operation, r, before) ==
  [op |-> op, operation |-> operation, ret |-> r.ret,
   api_calls |-> r.api_calls, api_ok |-> r.api_ok, before |-> before,
   check |-> r.check, at_check |-> r.at_check]

\* quota histories a provider can have behind it: new; five uploads and
\* eight updates; six uploads and seven updates; six uploads and eight
\* updates
NoOperations == [o \in ChargedOps |-> 0]

QuotaOf(operations) ==
  [used_today |->
     operations["video_insert"] * QuotaCost("video_insert")
     + operations["video_update"] * QuotaCost("video_update")
     + operations["video_list"] * QuotaCost("video_list")
     + operations["channel_list"] * QuotaCost("channel_list")
     + operations["thumbnail_set"] * QuotaCost("thumbnail_set"),
   operations |-> operations]

QuotaHistories ==
  { QuotaOf(NoOperations),
    QuotaOf([NoOperations EXCEPT !["video_insert"] = 5,
                                 !["video_update"] = 8]),
    QuotaOf([NoOperations EXCEPT !["video_insert"] = 6,
                                 !["video_update"] = 7]),
    QuotaOf([NoOperations EXCEPT !["video_insert"] = 6,
                                 !["video_update"] = 8]) }

InitClient ==
  /\ \E q \in QuotaHistories, channel_id \in BOOLEAN :
       yt = [pc |-> "idle", quota |-> q, channel_id |-> channel_id,
             n_ops |-> 0, up |-> NoUpload, last |-> NoOperation]
  /\ br = [pc |-> "none"]
  /\ ss = [pc |-> "none"]
  /\ ReconIdle /\ BatchIdle /\ PermIdle /\ StoreIdle /\ HashIdle

ClientReady == yt.pc = "idle" /\ yt.n_ops < MaxOps

Finish(r, op, operation) ==
  yt' = [yt EXCEPT !.quota = r.quota, !.n_ops = @ + 1,
                   !.last = AuxResult(op, operation, r, yt.quota)]

ClientFrame == UNCHANGED <<vars, batchVars, perm, storeVars, hs, br, ss>>

GetChannelInfo ==
  /\ ClientReady
  /\ \E day_passed \in BOOLEAN, outcome \in ListOutcomes :
       Finish(get_channel_info(yt.quota, yt.channel_id, day_passed, outcome),
              "get_channel_info", "channel_list")
  /\ ClientFrame

UpdateVideoMetadata ==
  /\ ClientReady
  /\ \E day_passed \in BOOLEAN, outcome \in ExecuteOutcomes :
       Finish(update_video_metadata(yt.quota, day_passed, outcome),
              "update_video_metadata", "video_update")
  /\ ClientFrame

GetVideoInfo ==
  /\ ClientReady
  /\ \E day_passed \in BOOLEAN, outcome \in ListOutcomes :
       Finish(get_video_info_quota(yt.quota, day_passed, outcome),
              "get_video_info", "video_list")
  /\ ClientFrame

DeleteVideo ==
  /\ ClientReady
  /\ \E outcome \in ExecuteOutcomes :
       Finish(delete_video(yt.quota, outcome), "delete_video", "")
  /\ ClientFrame

SetThumbnail ==
  /\ ClientReady
  /\ \E day_passed \in BOOLEAN, readable \in BOOLEAN,
        outcome \in ExecuteOutcomes :
       Finish(set_thumbnail(yt.quota, day_passed, readable, outcome),
              "set_thumbnail", "thumbnail_set")
  /\ ClientFrame

\* upload_video up to the call of _perform_resumable_upload.  media says
\* whether MediaFileUpload can open the file.
upload_video ==
  /\ ClientReady
  /\ \E message \in ValidateMessages, day_passed \in BOOLEAN,
        media \in BOOLEAN, chunks \in 1..MaxChunks :
       LET c == _check_quota(yt.quota, "video_insert", day_passed)
           used == c.quota.used_today
       IN
       IF message # "Valid"
       THEN yt' = [yt EXCEPT
                     !.n_ops = @ + 1,
                     !.last = UploadResult("error", message, "", NoUpload,
                                  yt.quota, "none", yt.quota.used_today)]
       ELSE IF ~c.ok
       THEN yt' = [yt EXCEPT
                     !.quota = c.quota, !.n_ops = @ + 1,
                     !.last = UploadResult("error", "Daily quota exceeded",
                                  "", NoUpload, yt.quota, "block", used)]
       ELSE IF ~media
       THEN yt' = [yt EXCEPT
                     !.quota = c.quota, !.n_ops = @ + 1,
                     !.last = UploadResult("error",
                                  "Unexpected error during upload", "",
                                  NoUpload, yt.quota, "pass", used)]
       ELSE yt' = [yt EXCEPT
                     !.pc = "uploading", !.quota = c.quota,
                     !.n_ops = @ + 1,
                     !.up = NewUpload(chunks, yt.quota, used)]
  /\ ClientFrame

\* one pass through the loop body
next_chunk ==
  /\ yt.pc = "uploading"
  /\ _perform_resumable_upload_loop(yt.up)
  /\ \E outcome \in ChunkOutcomes :
       yt' = [yt EXCEPT !.up = _perform_resumable_upload_step(@, outcome)]
  /\ ClientFrame

\* after the loop: the return of _perform_resumable_upload and the rest of
\* upload_video
upload_video_return ==
  /\ yt.pc = "uploading"
  /\ ~_perform_resumable_upload_loop(yt.up)
  /\ LET response == yt.up.error = "none" /\ yt.up.response IN
     IF response
     THEN yt' = [yt EXCEPT
                   !.pc = "idle", !.up = NoUpload,
                   !.quota = _consume_quota(@, "video_insert"),
                   !.last = UploadResult("completed", "", "id", yt.up,
                                yt.up.before, "pass", yt.up.at_check)]
     ELSE yt' = [yt EXCEPT
                   !.pc = "idle", !.up = NoUpload,
                   !.last = UploadResult("error",
                                "Upload failed without error response", "",
                                yt.up, yt.up.before, "pass",
                                yt.up.at_check)]
  /\ ClientFrame

NextClient ==
  \/ GetChannelInfo
  \/ UpdateVideoMetadata
  \/ GetVideoInfo
  \/ DeleteVideo
  \/ SetThumbnail
  \/ upload_video
  \/ next_chunk
  \/ upload_video_return

SpecClient == InitClient /\ [][NextClient]_allVars

(* ---------------------- n2bl bridge.upload_video ------------------------- *)
MAX_RETRIES == 8

\* _backoff(i) sleeps this many seconds
_backoff(i) == IF 2^i < 60 THEN 2^i ELSE 60

\* what req.next_chunk() can do: return (a response with the last chunk),
\* raise an HttpError with a status in RETRYABLE_STATUS, raise another
\* HttpError, raise something else
BridgeOutcomes == {"ok", "transient", "http_error", "other_error"}

\* e.resp.status in RETRYABLE_STATUS and attempt < MAX_RETRIES
retry_allowed_inclusive(outcome, attempt) ==
  outcome = "transient" /\ attempt <= MAX_RETRIES

\* without the ceiling
retry_allowed_unbounded(outcome, attempt) == outcome = "transient"

retry_allowed(outcome, attempt) ==
  outcome = "transient" /\ attempt < MAX_RETRIES

\* the locals of upload_video; calls counts next_chunk() calls, transients
\* those that raised a retryable error, slept the seconds spent in _backoff,
\* delay the last sleep, error what the call raises in the end, uploads the
\* calls of upload_video so far
BridgeStart(chunks, uploads) ==
  [pc |-> "loop", attempt |-> 0, chunks |-> chunks, chunks_left |-> chunks,
   calls |-> 0, transients |-> 0, slept |-> 0, delay |-> 0,
   error |-> "none", uploads |-> uploads]

bridge_upload_video_step(b, outcome) ==
  LET n == b.calls + 1 IN
  IF outcome = "ok"
  THEN [b EXCEPT !.calls = n, !.chunks_left = @ - 1,
                 !.pc = IF b.chunks_left = 1 THEN "return" ELSE "loop"]
  ELSE IF retry_allowed(outcome, b.attempt)
  THEN [b EXCEPT !.calls = n, !.transients = @ + 1,
                 !.attempt = @ + 1,
                 !.delay = _backoff(b.attempt + 1),
                 !.slept = @ + _backoff(b.attempt + 1)]
  ELSE [b EXCEPT !.calls = n, !.pc = "raise", !.error = outcome,
                 !.transients = IF outcome = "transient" THEN @ + 1 ELSE @]

BridgeFrame == UNCHANGED <<vars, batchVars, perm, storeVars, hs, yt, ss>>

InitBridge ==
  /\ br = [pc |-> "idle", uploads |-> 0]
  /\ yt = [pc |-> "none"]
  /\ ss = [pc |-> "none"]
  /\ ReconIdle /\ BatchIdle /\ PermIdle /\ StoreIdle /\ HashIdle

\* the call, up to the loop
BridgeUploadVideo ==
  /\ br.pc \in {"idle", "return", "raise"}
  /\ br.uploads < MaxOps
  /\ \E chunks \in 1..MaxChunks : br' = BridgeStart(chunks, br.uploads + 1)
  /\ BridgeFrame

\* one pass through the loop
BridgeNextChunk ==
  /\ br.pc = "loop"
  /\ \E outcome \in BridgeOutcomes :
       br' = bridge_upload_video_step(br, outcome)
  /\ BridgeFrame

NextBridge == BridgeUploadVideo \/ BridgeNextChunk

SpecBridge == InitBridge /\ [][NextBridge]_allVars

(* ---------------------- n2bl janitor, engine, cli ------------------------ *)
\* at most MaxCommands commands are run in the working directory
MaxCommands == 2

\* a session is given at most MaxJobs jobs
MaxJobs == 2

Files == {"a.mp4", "b.mp4"}

\* os.listdir order does not matter: scan_dir sorts by file
SortedFiles == <<"a.mp4", "b.mp4">>

\* the disk is [side, state, readonly]: the sidecars (metadata only; of the
\* metadata the model keeps the privacy) and the content of STATE_FILE,
\* both dictionaries keyed by file path, and the files whose directory
\* cannot be written
EmptyDisk == [side |-> <<>>, state |-> <<>>, readonly |-> {}]

Put(dict, key, value) ==
  [k \in DOMAIN dict \cup {key} |-> IF k = key THEN value ELSE dict[k]]

\* side.get("privacy", "private")
_load_sidecar(disk, path) ==
  IF path \in DOMAIN disk.side THEN disk.side[path] ELSE "private"

\* _load_state().get(path, {}) with the .get defaults of load_job
_load_state(disk, path) ==
  IF path \in DOMAIN disk.state
  THEN disk.state[path]
  ELSE [state |-> "pending", yt_id |-> "", attempts |-> 0, last_msg |-> ""]

load_job(disk, path) ==
  LET s == _load_state(disk, path) IN
  [file |-> path, privacy |-> _load_sidecar(disk, path),
   state |-> s.state, yt_id |-> s.yt_id, attempts |-> s.attempts,
   last_msg |-> s.last_msg]

RECURSIVE LoadAll(_, _)
LoadAll(disk, paths) ==
  IF paths = <<>> THEN <<>>
  ELSE <<load_job(disk, Head(paths))>> \o LoadAll(disk, Tail(paths))

\* every file of the directory, merged with the state file, sorted
scan_dir(disk) == LoadAll(disk, SortedFiles)

\* the volatile fields of a job
Lifecycle(job) ==
  [state |-> job.state, yt_id |-> job.yt_id, attempts |-> job.attempts,
   last_msg |-> job.last_msg]

save_job_sidecar_only(disk, job) ==
  [disk EXCEPT !.side = Put(@, job.file, job.privacy)]

save_job(disk, job) ==
  [side |-> Put(disk.side, job.file, job.privacy),
   state |-> Put(disk.state, job.file, Lifecycle(job)),
   readonly |-> disk.readonly]

\* open(job.meta_path(), "w") raises: save_job and mark raise with it
\* before anything is written
_save_sidecar_raises(disk, job) == job.file \in disk.readonly

\* mark(job, **kv): kv is given as the job with the fields already set
mark(disk, job) == [job |-> job, disk |-> save_job(disk, job)]

\* --- engine ---
\* what the client calls of upload_once do: all return; set_thumbnail
\* raises; upload_video raises; update_metadata raises
UploadOutcomes == {"ok", "thumb_raises", "upload_raises", "update_raises"}

\* str(e)
ErrorText(outcome) ==
  CASE outcome = "upload_raises" -> "upload failed"
    [] outcome = "update_raises" -> "update failed"
    [] OTHER -> ""

\* first statement of upload_once
upload_once_begin(disk, job) ==
  mark(disk, [job EXCEPT !.state = "uploading", !.attempts = @ + 1,
                         !.last_msg = "starting"])

\* the rest of upload_once; calls counts the client calls
upload_once_rest_thumb_fatal(disk, job, outcome) ==
  IF outcome = "ok"
  THEN LET m == mark(disk, [job EXCEPT !.yt_id = "id", !.state = "done",
                                       !.last_msg = "done"])
       IN [job |-> m.job, disk |-> m.disk, ret |-> TRUE, calls |-> 2]
  ELSE LET m == mark(disk, [job EXCEPT !.state = "failed",
                                       !.last_msg = "failed"])
       IN [job |-> m.job, disk |-> m.disk, ret |-> FALSE, calls |-> 1]

upload_once_rest(disk, job, outcome) ==
  IF outcome = "upload_raises"
  THEN LET m == mark(disk, [job EXCEPT !.state = "failed",
                                       !.last_msg = ErrorText(outcome)])
       IN [job |-> m.job, disk |-> m.disk, ret |-> FALSE, calls |-> 1]
  ELSE
  LET m1 == mark(disk, [job EXCEPT !.yt_id = "id",
                                   !.last_msg = "uploaded"])
      thumb == outcome = "thumb_raises"
      m2 == IF thumb
            THEN mark(m1.disk, [m1.job EXCEPT !.last_msg = "thumb fail"])
            ELSE m1
      n == IF thumb THEN 3 ELSE 2
  IN
  IF outcome = "update_raises"
  THEN LET m == mark(m2.disk, [m2.job EXCEPT !.state = "failed",
                                 !.last_msg = ErrorText(outcome)])
       IN [job |-> m.job, disk |-> m.disk, ret |-> FALSE, calls |-> n]
  ELSE LET m == mark(m2.disk, [m2.job EXCEPT !.state = "done",
                                 !.last_msg = "done"])
       IN [job |-> m.job, disk |-> m.disk, ret |-> TRUE, calls |-> n]

\* SessionConfig
Intervals == {0, 65}
Configs ==
  [interval_min : Intervals, max_uploads : {0, 1}, dry_run : BOOLEAN,
   default_privacy : {"private"}]

\* lines 53-55 of run_session, for one job
normalize_defaults(job, cfg) ==
  IF job.privacy = "" THEN [job EXCEPT !.privacy = cfg.default_privacy]
  ELSE job

\* the end of the loop body after a job was handled: the pause after a
\* failure and the throttle before the next job, in seconds
loop_tail_success_only(ok, idx, n, mins) ==
  [pause |-> IF ok THEN 0 ELSE 15,
   wait |-> IF ok /\ idx < n /\ mins > 0 THEN mins * 60 ELSE 0,
   waits |-> IF ok /\ idx < n THEN 1 ELSE 0]

loop_tail(ok, idx, n, mins) ==
  [pause |-> IF ok THEN 0 ELSE 15,
   wait |-> IF idx < n /\ mins > 0 THEN mins * 60 ELSE 0,
   waits |-> IF idx < n THEN 1 ELSE 0]

\* the paths a session can be started with: --select, or the scan
RECURSIVE Selections(_)
Selections(n) ==
  IF n = 0 THEN {<<>>}
  ELSE LET shorter == Selections(n - 1) IN
       shorter \cup {Append(s, f) : s \in shorter, f \in Files}

SelectLists == Selections(MaxJobs) \ {<<>>}

\* [j for j in jobs if j.state in ("pending", "failed")]
RECURSIVE Startable(_)
Startable(jobs) ==
  IF jobs = <<>> THEN <<>>
  ELSE IF Head(jobs).state \in {"pending", "failed"}
       THEN <<Head(jobs)>> \o Startable(Tail(jobs))
       ELSE Startable(Tail(jobs))

RECURSIVE NormalizeAll(_, _)
NormalizeAll(jobs, cfg) ==
  IF jobs = <<>> THEN <<>>
  ELSE <<normalize_defaults(Head(jobs), cfg)>>
       \o NormalizeAll(Tail(jobs), cfg)

NoConfig ==
  [interval_min |-> 0, max_uploads |-> 0, dry_run |-> FALSE,
   default_privacy |-> "private"]

NoEvent == [op |-> "none"]

\* the counters of one session: jobs started, throttle waits, seconds
\* slept since the last start, the seconds that lay between the last two
\* starts (-1 before the second start), whether the job handled before
\* failed (prev_ok) and whether that was so at the last start
\* (after_failure), client calls
NoSession ==
  [mode |-> "none", jobs |-> <<>>, cfg |-> NoConfig, idx |-> 0, done |-> 0,
   started |-> 0, waits |-> 0, gap |-> 0, gap_at_start |-> -1,
   prev_ok |-> TRUE, after_failure |-> FALSE, calls |-> 0]

InitSession ==
  /\ ss = [pc |-> "idle", disk |-> EmptyDisk, commands |-> 0,
           run |-> NoSession, last |-> NoEvent]
  /\ yt = [pc |-> "none"]
  /\ br = [pc |-> "none"]
  /\ ReconIdle /\ BatchIdle /\ PermIdle /\ StoreIdle /\ HashIdle

SessionFrame == UNCHANGED <<vars, batchVars, perm, storeVars, hs, yt, br>>

CommandReady == ss.pc = "idle" /\ ss.commands < MaxCommands

\* cli: edit <file> [--privacy p]
CliEdit ==
  /\ CommandReady
  /\ \E path \in Files, privacy \in {"none", "private", "public"} :
       LET job == load_job(ss.disk, path)
           edited == IF privacy = "none" THEN job
                     ELSE [job EXCEPT !.privacy = privacy]
       IN
       IF _save_sidecar_raises(ss.disk, edited)
       THEN ss' = [ss EXCEPT !.commands = @ + 1, !.run = NoSession,
                             !.last = [op |-> "raised", file |-> path]]
       ELSE ss' = [ss EXCEPT !.disk = save_job(@, edited),
                             !.commands = @ + 1,
                             !.run = NoSession,
                             !.last = [op |-> "edit", file |-> path]]
  /\ SessionFrame

\* a job is started: the counters of the session
Started(run) ==
  [run EXCEPT !.started = @ + 1,
              !.gap_at_start = IF run.started = 0 THEN -1 ELSE run.gap,
              !.after_failure = ~run.prev_ok,
              !.gap = 0]

\* cli: upload <file>, up to the first client call of upload_once
CliUpload ==
  /\ CommandReady
  /\ \E path \in Files :
       LET job == load_job(ss.disk, path)
           d == save_job(ss.disk, job)
           m == upload_once_begin(d, job)
       IN
       IF _save_sidecar_raises(ss.disk, job)
       THEN ss' = [ss EXCEPT !.commands = @ + 1, !.run = NoSession,
                             !.last = [op |-> "raised", file |-> path]]
       ELSE ss' = [ss EXCEPT
                     !.pc = "client", !.disk = m.disk, !.commands = @ + 1,
                     !.run = Started([NoSession EXCEPT !.mode = "single",
                                        !.jobs = <<m.job>>, !.idx = 1]),
                     !.last = [op |-> "begin", file |-> path,
                               before |-> job]]
  /\ SessionFrame

\* cli: start [--select ...] (filtered), or run_session called with the
\* loaded jobs as they are; up to the loop
RunSession ==
  /\ CommandReady
  /\ \E select \in SelectLists \cup {<<>>}, cfg \in Configs :
       LET loaded == IF select = <<>> THEN scan_dir(ss.disk)
                     ELSE LoadAll(ss.disk, select)
       IN
       \E jobs \in {Startable(loaded), loaded} :
       /\ Len(jobs) <= MaxJobs
       /\ IF jobs = <<>>
          THEN ss' = [ss EXCEPT !.commands = @ + 1, !.run = NoSession,
                                !.last = [op |-> "no jobs"]]
          ELSE ss' = [ss EXCEPT
                        !.pc = "loop", !.commands = @ + 1,
                        !.run = [NoSession EXCEPT
                                   !.mode = "session",
                                   !.jobs = NormalizeAll(jobs, cfg),
                                   !.cfg = cfg, !.idx = 1],
                        !.last = [op |-> "session"]]
  /\ SessionFrame

\* idx is the number of the job of the next iteration; past the last job
\* the session is over
Advance(run) == [run EXCEPT !.idx = @ + 1]

AfterAdvance(run) == IF run.idx > Len(run.jobs) THEN "idle" ELSE "loop"

LoopTail(run, ok) ==
  LET t == loop_tail(ok, run.idx, Len(run.jobs), run.cfg.interval_min) IN
  Advance([run EXCEPT !.gap = @ + t.pause + t.wait,
                      !.waits = @ + t.waits,
                      !.prev_ok = ok])

\* what the loop body does with a job: lines 61-72 of run_session
run_session_branch_late_cap(run, job) ==
  IF run.cfg.max_uploads # 0 /\ run.done > run.cfg.max_uploads
  THEN "break"
  ELSE IF job.state = "done" THEN "skip"
  ELSE IF run.cfg.dry_run THEN "dry"
  ELSE "upload"

run_session_branch_no_skip(run, job) ==
  IF run.cfg.max_uploads # 0 /\ run.done >= run.cfg.max_uploads
  THEN "break"
  ELSE IF run.cfg.dry_run THEN "dry"
  ELSE "upload"

run_session_branch(run, job) ==
  IF run.cfg.max_uploads # 0 /\ run.done >= run.cfg.max_uploads
  THEN "break"
  ELSE IF job.state = "done" THEN "skip"
  ELSE IF run.cfg.dry_run THEN "dry"
  ELSE "upload"

\* one iteration of the loop of run_session, up to the first client call
RunSessionIterate ==
  /\ ss.pc = "loop"
  /\ LET run == ss.run
         job == run.jobs[run.idx]
         branch == run_session_branch(run, job)
     IN
     IF branch = "break"
     THEN ss' = [ss EXCEPT !.pc = "idle",
                           !.last = [op |-> "break", file |-> job.file]]
     ELSE IF branch = "skip"
     THEN LET r == Advance(run) IN
          ss' = [ss EXCEPT !.pc = AfterAdvance(r), !.run = r,
                           !.last = [op |-> "skip", file |-> job.file]]
     ELSE IF branch = "dry"
     THEN LET r == LoopTail(Started(run), TRUE) IN
          ss' = [ss EXCEPT !.pc = AfterAdvance(r), !.run = r,
                           !.last = [op |-> "dry", file |-> job.file]]
     ELSE IF _save_sidecar_raises(ss.disk, job)
     THEN \* the first mark of upload_once raises, and so does the mark of
          \* its handler: the exception leaves upload_once and run_session
          ss' = [ss EXCEPT
                   !.pc = "idle",
                   !.run = [Started(run) EXCEPT
                              !.jobs[run.idx] =
                                 [job EXCEPT !.state = "failed",
                                             !.attempts = @ + 1,
                                             !.last_msg = "not writable"]],
                   !.last = [op |-> "raised", file |-> job.file]]
     ELSE LET m == upload_once_begin(ss.disk, job) IN
          ss' = [ss EXCEPT
                   !.pc = "client", !.disk = m.disk,
                   !.run = [Started(run) EXCEPT !.jobs[run.idx] = m.job],
                   !.last = [op |-> "begin", file |-> job.file,
                             before |-> job]]
  /\ SessionFrame

\* the client calls of upload_once return or raise; the rest of
\* upload_once and of the loop body
UploadOnceReturns ==
  /\ ss.pc = "client"
  /\ \E outcome \in UploadOutcomes :
       LET run == ss.run
           r == upload_once_rest(ss.disk, run.jobs[run.idx], outcome)
           run1 == [run EXCEPT !.jobs[run.idx] = r.job,
                               !.calls = @ + r.calls,
                               !.done = IF r.ret THEN @ + 1 ELSE @]
           run2 == IF run.mode = "single" THEN Advance(run1)
                   ELSE LoopTail(run1, r.ret)
       IN ss' = [ss EXCEPT
                   !.pc = AfterAdvance(run2), !.disk = r.disk,
                   !.run = run2,
                   !.last = [op |-> "upload_once", file |-> r.job.file,
                             before |-> ss.last.before, job |-> r.job,
                             ret |-> r.ret, outcome |-> outcome]]
  /\ SessionFrame

\* --- sessions that are interrupted ---
\* the files a list of jobs is about
RECURSIVE FilesOf(_)
FilesOf(jobs) ==
  IF jobs = <<>> THEN {} ELSE {Head(jobs).file} \cup FilesOf(Tail(jobs))

\* start with the default interval, privacy and no --dry-run, with or
\* without --max
StartConfigs ==
  {cfg \in Configs : ~cfg.dry_run /\ cfg.interval_min = 65}

\* cli: start [--select ...] with its filter, up to the loop
CliStart ==
  /\ CommandReady
  /\ \E select \in SelectLists \cup {<<>>}, cfg \in StartConfigs :
       LET loaded == IF select = <<>> THEN scan_dir(ss.disk)
                     ELSE LoadAll(ss.disk, select)
           jobs == Startable(loaded)
           event == [op |-> "start", asked |-> FilesOf(loaded),
                     listed |-> FilesOf(jobs)]
       IN
       IF jobs = <<>>
       THEN ss' = [ss EXCEPT !.commands = @ + 1, !.run = NoSession,
                             !.last = event]
       ELSE ss' = [ss EXCEPT
                     !.pc = "loop", !.commands = @ + 1,
                     !.run = [NoSession EXCEPT
                                !.mode = "session",
                                !.jobs = NormalizeAll(jobs, cfg),
                                !.cfg = cfg, !.idx = 1],
                     !.last = event]
  /\ SessionFrame

\* the process is killed or crashes while a session is under way
Kill ==
  /\ ss.pc \in {"loop", "client"}
  /\ ss' = [ss EXCEPT !.pc = "idle",
                      !.last = [op |-> "killed",
                                file |-> ss.run.jobs[ss.run.idx].file]]
  /\ SessionFrame

\* the working directory is new; the directory of b.mp4 may be one that
\* cannot be written
InitRecovery ==
  /\ \E readonly \in {{}, {"b.mp4"}} :
       ss = [pc |-> "idle",
             disk |-> [EmptyDisk EXCEPT !.readonly = readonly],
             commands |-> 0, run |-> NoSession, last |-> NoEvent]
  /\ yt = [pc |-> "none"]
  /\ br = [pc |-> "none"]
  /\ ReconIdle /\ BatchIdle /\ PermIdle /\ StoreIdle /\ HashIdle

NextRecovery ==
  \/ CliStart
  \/ RunSessionIterate
  \/ UploadOnceReturns
  \/ Kill

SpecRecovery == InitRecovery /\ [][NextRecovery]_allVars

NextSession ==
  \/ CliEdit
  \/ CliUpload
  \/ RunSession
  \/ RunSessionIterate
  \/ UploadOnceReturns

SpecSession == InitSession /\ [][NextSession]_allVars

(* ============== the two resumable uploads, side by side ================ *)
\* Either client is in use: YouTubeProvider.upload_video or
\* bridge.upload_video, each called up to MaxOps times.
InitUploads == InitClient \/ InitBridge

NextUploads ==
  \/ upload_video
  \/ next_chunk
  \/ upload_video_return
  \/ BridgeUploadVideo
  \/ BridgeNextChunk

SpecUploads == InitUploads /\ [][NextUploads]_allVars

\* Each next_chunk() call comes back (with a result or an error) and each
\* sleep ends, so a loop that can take a step takes it.
FairUploads ==
  /\ SpecUploads
  /\ WF_allVars(next_chunk)
  /\ WF_allVars(upload_video_return)
  /\ WF_allVars(BridgeNextChunk)

(* ============ janitor: the steps of one mark, and crashes ============== *)
\* The jobs as upload_once marks them, in order, for one outcome of the
\* client calls.
upload_once_marks(job, outcome) ==
  LET starting == [job EXCEPT !.state = "uploading", !.attempts = @ + 1,
                              !.last_msg = "starting"]
      uploaded == [starting EXCEPT !.yt_id = "id", !.last_msg = "uploaded"]
      thumb == outcome = "thumb_raises"
      thumbed == [uploaded EXCEPT !.last_msg = "thumb fail"]
      latest == IF thumb THEN thumbed ELSE uploaded
      failed(j) == [j EXCEPT !.state = "failed",
                             !.last_msg = ErrorText(outcome)]
  IN
  IF outcome = "upload_raises" THEN <<starting, failed(starting)>>
  ELSE <<starting, uploaded>> \o (IF thumb THEN <<thumbed>> ELSE <<>>)
       \o <<IF outcome = "update_raises" THEN failed(latest)
            ELSE [latest EXCEPT !.state = "done", !.last_msg = "done"]>>

\* In this component ss.run is [jobs, marks, st]: the jobs not yet finished,
\* the marks of the current job not yet saved, and the dictionary _save_state
\* was handed; ss.last.recorded is, per file, the lifecycle of the last mark
\* that returned.
InitPersist ==
  /\ ss = [pc |-> "idle", disk |-> EmptyDisk, commands |-> 0,
           run |-> [jobs |-> <<>>, marks |-> <<>>, st |-> <<>>],
           last |-> [op |-> "none", file |-> "", recorded |-> <<>>]]
  /\ yt = [pc |-> "none"]
  /\ br = [pc |-> "none"]
  /\ ReconIdle /\ BatchIdle /\ PermIdle /\ StoreIdle /\ HashIdle

\* cli start --select ... with the default options
PersistStart ==
  /\ ss.pc = "idle"
  /\ ss.commands < MaxCommands
  /\ \E select \in SelectLists :
       LET jobs == Startable(LoadAll(ss.disk, select)) IN
       /\ jobs # <<>>
       /\ ss' = [ss EXCEPT !.pc = "job", !.commands = @ + 1,
                           !.run.jobs = jobs,
                           !.last.op = "start"]
  /\ SessionFrame

\* run_session calls upload_once for the next job
PersistUploadOnce ==
  /\ ss.pc = "job"
  /\ \E outcome \in UploadOutcomes :
       LET job == Head(ss.run.jobs) IN
       ss' = [ss EXCEPT !.pc = "sidecar",
                        !.run.marks = upload_once_marks(job, outcome),
                        !.last.op = "upload_once", !.last.file = job.file]
  /\ SessionFrame

\* mark: setattr, then save_job up to the end of _save_sidecar
SaveSidecar ==
  /\ ss.pc = "sidecar"
  /\ LET job == Head(ss.run.marks) IN
     ss' = [ss EXCEPT !.pc = "open",
                      !.disk.side = Put(@, job.file, job.privacy),
                      !.last.op = "sidecar"]
  /\ SessionFrame

\* save_job: st = _load_state(); st[job.file] = ...; then _save_state
\* opens STATE_FILE with mode "w", which empties the file
StateOpen ==
  /\ ss.pc = "open"
  /\ LET job == Head(ss.run.marks) IN
     ss' = [ss EXCEPT !.pc = "dump",
                      !.run.st = Put(ss.disk.state, job.file, Lifecycle(job)),
                      !.disk.state = <<>>,
                      !.last.op = "open"]
  /\ SessionFrame

\* json.dump and the close of the file; mark returns
StateDump ==
  /\ ss.pc = "dump"
  /\ LET job == Head(ss.run.marks)
         marks == Tail(ss.run.marks)
         jobs == IF marks = <<>> THEN Tail(ss.run.jobs) ELSE ss.run.jobs
     IN
     ss' = [ss EXCEPT
              !.pc = IF marks # <<>> THEN "sidecar"
                     ELSE IF jobs # <<>> THEN "job" ELSE "idle",
              !.disk.state = ss.run.st,
              !.run = [jobs |-> jobs, marks |-> marks, st |-> <<>>],
              !.last.op = "mark",
              !.last.recorded = Put(@, job.file, Lifecycle(job))]
  /\ SessionFrame

\* the process is killed, or the machine stops, at any point of a session
Crash ==
  /\ ss.pc \in {"job", "sidecar", "open", "dump"}
  /\ ss' = [ss EXCEPT !.pc = "crashed"]
  /\ SessionFrame

NextPersist ==
  \/ PersistStart
  \/ PersistUploadOnce
  \/ SaveSidecar
  \/ StateOpen
  \/ StateDump
  \/ Crash

SpecPersist == InitPersist /\ [][NextPersist]_allVars

(* ===================== vocabulary of the claims ======================== *)
\* the stored state the last pass started from ("undefined" when no tag)
PreState == IF Truthy(pre["upload_state"]) THEN pre["upload_state"] ELSE "undefined"

PreUser == IF Truthy(pre["upload_user"]) THEN pre["upload_user"] ELSE "default"

PreHasId == Truthy(pre["platform_id"])

\* a remote client exists for the file's upload user
PreClient == PreUser \in youtube_providers

\* the fingerprint of the tags differs from the stored sync_hash
PreDrift == _calculate_metadata_hash(pre) # pre["sync_hash"]

\* the title tag is present and is neither empty nor only whitespace
PreTitleOk == pre["title"] \notin {NoVal, "", " ", "  "}

\* the last step was a pass that went through without an exception
Normal == res.ran /\ ~res.raised

ActionOf(r) ==
  CASE r.needs_upload /\ r.needs_update -> "both"
    [] r.needs_upload -> "upload"
    [] r.needs_update -> "update"
    [] OTHER -> "none"

Pending == {"queued_new", "uploading"}

\* rows of the transition table whose next state is hindered
HinderedRow ==
  \/ PreState \in Pending /\ PreHasId /\ res.lookup # "found"
  \/ PreState = "finished" /\ ~PreDrift /\ res.lookup # "found"
  \/ PreState = "queued_edit" /\ ~(PreClient /\ PreHasId)
  \/ PreState = "hindered"

(* ================================ C1 ==================================== *)
\* C1 (as claimed): every pass yields one status of the enum and one action
\* of none/upload/update, never upload and update together, and the status
\* is hindered only on a table row that says hindered or after an exception.
C1_AsClaimed ==
  res.ran =>
    /\ res.local_status \in FileStatus
    /\ ActionOf(res) \in {"none", "upload", "update"}
    /\ (res.local_status = "hindered" => res.raised \/ HinderedRow)

\* C1 (amended): as above, and the status is also hindered for a file in
\* queued_new / uploading whose upload user has no remote client, with or
\* without a platform_id.
C1_Totality ==
  res.ran =>
    /\ res.local_status \in FileStatus
    /\ ActionOf(res) \in {"none", "upload", "update"}
    /\ (res.local_status = "hindered" =>
          \/ res.raised
          \/ HinderedRow
          \/ PreState \in Pending /\ ~PreClient)

C1_Witness ==
  /\ Normal
  /\ PreState \in Pending /\ ~PreHasId /\ ~PreClient
  /\ res.local_status = "hindered"
  /\ ActionOf(res) = "none"

(* ================================ C2 ==================================== *)
\* C2: a finished file whose fingerprint differs from the stored sync_hash
\* comes out of a pass (one that raises nothing) as queued_edit with action
\* update, whatever the platform holds, and its sync_hash tag is untouched.
C2_DriftQueuesEdit ==
  (Normal /\ PreState = "finished" /\ PreDrift) =>
    /\ res.local_status = "queued_edit"
    /\ ActionOf(res) = "update"
    /\ tags["upload_state"] = "queued_edit"
    /\ tags["sync_hash"] = pre["sync_hash"]

C2_Witness ==
  /\ Normal /\ PreState = "finished" /\ PreDrift
  /\ Truthy(pre["sync_hash"])
  /\ PreHasId /\ pre["platform_id"] \in remote /\ PreClient
  /\ res.local_status = "queued_edit"

(* ================================ C3 ==================================== *)
\* C3: an acknowledged or provisioned file becomes queued_new with action
\* upload exactly when its title is present and not blank; otherwise it
\* becomes provisioned with no action.
C3_TitleDecides ==
  (Normal /\ PreState \in {"acknowledged", "provisioned"}) =>
    IF PreTitleOk
    THEN res.local_status = "queued_new" /\ ActionOf(res) = "upload"
    ELSE res.local_status = "provisioned" /\ ActionOf(res) = "none"

\* title "Trip", no remote record, no platform_id
C3_Witness ==
  /\ Normal /\ PreState \in {"acknowledged", "provisioned"}
  /\ pre["title"] = "Trip" /\ ~PreHasId /\ remote = {}
  /\ res.local_status = "queued_new" /\ ActionOf(res) = "upload"

C3_WitnessBlank ==
  /\ Normal /\ PreState = "acknowledged" /\ pre["title"] = " "
  /\ res.local_status = "provisioned"

C5_AsClaimed ==
  (Normal /\ PreState \in Pending /\ ~PreHasId) =>
    /\ res.local_status = PreState
    /\ ActionOf(res) = "upload"

\* C5 (amended): that holds when the file's upload user has a remote client;
\* without one the pass yields hindered, no action, "Upload user ... not
\* available".
C5_PendingNoId ==
  (Normal /\ PreState \in Pending /\ ~PreHasId) =>
    IF PreClient
    THEN /\ res.local_status = PreState
         /\ ActionOf(res) = "upload"
         /\ tags["upload_state"] = PreState
    ELSE /\ res.local_status = "hindered"
         /\ ActionOf(res) = "none"
         /\ res.error_message = "Upload user '" \o PreUser \o "' not available"

C5_Witness ==
  /\ Normal /\ PreState = "uploading" /\ ~PreHasId /\ PreClient
  /\ res.local_status = "uploading" /\ res.needs_upload

(* ================================ C6 ==================================== *)
\* C6: a file in queued_new / uploading whose platform_id the lookup finds
\* becomes finished with no action; the sync_hash tag written by the pass is
\* the fingerprint of the file's tags, so no pass that follows without a
\* tag edit reports queued_edit.
C6_UploadConfirmed ==
  (Normal /\ PreState \in Pending /\ PreHasId /\ res.lookup = "found") =>
    /\ res.local_status = "finished"
    /\ ActionOf(res) = "none"
    /\ tags["upload_state"] = "finished"
    /\ tags["sync_hash"] = _calculate_metadata_hash(tags)
    /\ \A f \in Faults, now \in 1..MaxTime :
         _check_single_file(tags, file_path, youtube_providers, remote, now, f)[2]
            .local_status # "queued_edit"

C6_Witness ==
  /\ Normal /\ PreState \in Pending /\ PreHasId /\ res.lookup = "found"
  /\ pre["title"] = "Trip" /\ pre["sync_hash"] # tags["sync_hash"]
  /\ res.local_status = "finished"

(* ================================ C7 ==================================== *)
\* C7: a file in queued_new / uploading with a platform_id for which the
\* lookup returns nothing becomes hindered with no action and the message
\* "Uploaded video not found", which is stored in its error_message tag.
C7_UploadLost ==
  (Normal /\ PreState \in Pending /\ PreHasId /\ res.lookup = "none") =>
    /\ res.local_status = "hindered"
    /\ ActionOf(res) = "none"
    /\ res.error_message = "Uploaded video not found"
    /\ tags["error_message"] = "Uploaded video not found"
    /\ tags["upload_state"] = "hindered"

C7_Witness ==
  /\ Normal /\ PreState = "uploading" /\ PreHasId /\ res.lookup = "none"
  /\ pre["error_message"] = NoVal
  /\ tags["error_message"] = "Uploaded video not found"

(* ================================ C8 ==================================== *)
\* C8: a finished file whose fingerprint matches and whose remote record is
\* not resolvable (lookup returns nothing, no platform_id, or no remote
\* client for its upload user) becomes hindered with no action and the
\* message that the remote record no longer exists.
C8_AsClaimed ==
  (Normal /\ PreState = "finished" /\ ~PreDrift
     /\ (res.lookup = "none" \/ ~PreHasId \/ ~PreClient)) =>
    /\ res.local_status = "hindered"
    /\ ActionOf(res) = "none"
    /\ res.error_message = "Remote video no longer exists"

(* ================================ C9 ==================================== *)
\* C9: a finished file whose fingerprint matches and whose record the lookup
\* finds stays finished with no action; the pass leaves sync_hash and the
\* fingerprint as they were, so the same holds for the next pass.
C9_FinishedStable ==
  (Normal /\ PreState = "finished" /\ ~PreDrift /\ res.lookup = "found") =>
    /\ res.local_status = "finished"
    /\ ActionOf(res) = "none"
    /\ tags["upload_state"] = "finished"
    /\ tags["sync_hash"] = pre["sync_hash"]
    /\ _calculate_metadata_hash(tags) = _calculate_metadata_hash(pre)
    /\ _calculate_metadata_hash(tags) = tags["sync_hash"]

C9_Witness ==
  /\ Normal /\ PreState = "finished" /\ ~PreDrift /\ res.lookup = "found"
  /\ pre["last_sync"] # NoVal /\ pre["title"] = "Trip"
  /\ res.local_status = "finished"

(* ================================ C10 =================================== *)
\* C10: a file in queued_edit or in hindered with a platform_id and a remote
\* client keeps its status and gets action update.
C10_AsClaimed ==
  (Normal /\ PreState \in {"queued_edit", "hindered"} /\ PreClient /\ PreHasId) =>
    /\ res.local_status = PreState
    /\ ActionOf(res) = "update"

(* ================================ C11 =================================== *)
\* tag map after n further passes that run into no fault
RECURSIVE Repass(_, _)
Repass(m, n) ==
  IF n = 0 THEN m
  ELSE Repass(_check_single_file(m, file_path, youtube_providers, remote,
                                 1, "none")[1], n - 1)

\* the conditions a hindered file can have been stopped by are in order:
\* the upload user has a client, the title is usable, and a stored
\* platform_id names a record the platform holds
ConditionFixed(m) ==
  /\ (IF Truthy(m["upload_user"]) THEN m["upload_user"] ELSE "default")
        \in youtube_providers
  /\ m["title"] = "Trip"
  /\ Truthy(m["platform_id"]) => m["platform_id"] \in remote

\* C11: a file stored as hindered whose underlying condition is fixed
\* leaves hindered in one of the next MaxPasses reconciliation passes.
C11_AsClaimed ==
  (tags["upload_state"] = "hindered" /\ ConditionFixed(tags)) =>
    \E n \in 1..MaxPasses : Repass(tags, n)["upload_state"] # "hindered"

(* ================================ C12 =================================== *)
\* the file_path column of a list of results
ResultPaths(results) == [j \in 1..Len(results) |-> results[j].file_path]

\* the paths among the first n of files that exist, in the order of files
ExistingAmong(files, n, exists) ==
  LET Exists(p) == p \in exists
  IN SelectSeq(SubSeq(files, 1, n), Exists)

\* text of the exception a pass that raised ended with
ExceptionText(r) ==
  CASE r.fault = "ffprobe" -> "FFprobe failed"
    [] r.fault # "ffprobe" /\ r.before["upload_state"] = "bogus" ->
         "'bogus' is not a valid FileStatus"
    [] OTHER -> IF r.fault = "api_raise" THEN "videos.list failed"
                ELSE "FFmpeg failed"

\* C12: a pass in which an exception is raised (failing probe, stored state
\* that is no FileStatus, failing lookup or rewrite) returns hindered with
\* no action and "Error checking file: <exception text>" whatever the file
\* held before, and check_all_files has one result for every existing file
\* it has gone through, in input order.
C12_ExceptionHinders ==
  /\ ResultPaths(bt_results) = ExistingAmong(bt_files, bt_i, bt_exists)
  /\ \A j \in 1..Len(bt_results) :
       LET r == bt_results[j]
       IN /\ (r.fault = "ffprobe" \/ r.before["upload_state"] = "bogus")
               => r.info.raised
          /\ r.info.raised =>
               /\ r.info.local_status = "hindered"
               /\ ActionOf(r.info) = "none"
               /\ r.info.error_message =
                    "Error checking file: " \o ExceptionText(r)

\* a batch of two existing files is through: the first, an upload in
\* flight, ran into a failing rewrite; the second was evaluated normally
C12_Witness ==
  /\ Len(bt_files) = 2 /\ bt_i = 2 /\ Len(bt_results) = 2
  /\ bt_results[1].before["upload_state"] = "queued_new"
  /\ bt_results[1].fault = "last_sync"
  /\ bt_results[1].info.raised
  /\ bt_results[1].info.local_status = "hindered"
  /\ ~bt_results[2].info.raised
  /\ bt_results[2].info.local_status = "acknowledged"

(* ================================ C13 =================================== *)
\* the keys whose schema entry says editable_by = "noone"
LockedKeys ==
  {k \in DOMAIN get_all_metadata_keys :
     get_all_metadata_keys[k].editable_by = "noone"}

\* C13: can_edit_key is false for a locked key and every role of the role
\* table.
C13_AsClaimed ==
  (perm.op = "can_edit_key" /\ perm.key \in LockedKeys
     /\ perm.r1 \in DOMAIN ROLES) => ~perm.e1

(* ================================ C14 =================================== *)
\* C14: when level(r1) >= level(r2), a key can_edit_key allows for r2 is
\* allowed for r1, and get_editable_keys(r1) contains get_editable_keys(r2);
\* a key outside the schema is allowed for both.
C14_Monotone ==
  /\ (perm.op = "can_edit_key"
        /\ get_role_level(perm.r1) >= get_role_level(perm.r2)) =>
       /\ perm.e2 => perm.e1
       /\ perm.key = "note" => (perm.e1 /\ perm.e2)
  /\ (perm.op = "get_editable_keys"
        /\ get_role_level(perm.r1) >= get_role_level(perm.r2)) =>
       perm.ks2 \subseteq perm.ks1

\* system may edit upload_state and user may not
C14_Witness ==
  /\ perm.op = "can_edit_key" /\ perm.key = "upload_state"
  /\ perm.r1 = "system" /\ perm.r2 = "user"
  /\ perm.e1 /\ ~perm.e2

(* ============================ adapter claims ============================ *)
\* the role the schema asks for under each spelling of a key of the model
\* ("mouse", the lowest role, for a name the schema does not know)
RequiredRole(key) ==
  CASE key \in {"title", "comment"} -> "user"
    [] key \in {"upload_state", "PQP:upload_state"} -> "system"
    [] key = "duration" -> "noone"
    [] OTHER -> "mouse"

Authorized(key, cardinal) == ROLES[cardinal] >= ROLES[RequiredRole(key)]

LastIsWrite == st_last.op \in {"set_metadata", "delete_metadata"}

(* ================================ C15 =================================== *)
\* C15: set_metadata / delete_metadata by a role that may not edit the key,
\* under whatever spelling, returns False, raises nothing, rewrites nothing
\* and leaves the tag map of the file as it was.
C15_UnauthorizedNoOp ==
  (LastIsWrite /\ ~Authorized(st_last.key, st_last.cardinal)) =>
    /\ st_last.ret = "False"
    /\ st_last.error = NoVal
    /\ st_last.rewrites = 0
    /\ st_tags = st_last.before
    /\ ~st_temp

\* user sets the container spelling of upload_state on a finished file
C15_Witness ==
  /\ st_last.op = "set_metadata" /\ st_last.key = "PQP:upload_state"
  /\ st_last.cardinal = "user" /\ st_last.value = PyStr("A")
  /\ st_last.before["PQP:upload_state"] = "finished"
  /\ st_last.ret = "False"
  /\ st_tags["PQP:upload_state"] = "finished"

(* ================================ C16 =================================== *)
\* the call gets as far as the rewrite
ReachesRewrite ==
  /\ Authorized(st_last.key, st_last.cardinal)
  /\ st_last.op = "delete_metadata" => st_last.before[st_last.key] # NoVal

\* C16: when ffmpeg fails in set_metadata or delete_metadata the call
\* raises "FFmpeg failed: <stderr>", no temporary file is left and the
\* file holds the tags it held before; no call in which ffmpeg fails
\* returns True.
C16_MuxFailure ==
  (LastIsWrite /\ st_last.fault # "none") =>
    /\ st_last.ret # "True"
    /\ st_tags = st_last.before
    /\ ~st_temp
    /\ ReachesRewrite =>
         /\ st_last.ret = "raise"
         /\ st_last.error = "FFmpeg failed: " \o Stderr

\* ffmpeg fails with part of the output written while user retitles
C16_Witness ==
  /\ st_last.op = "set_metadata" /\ st_last.key = "title"
  /\ st_last.cardinal = "user" /\ st_last.value = PyStr("B")
  /\ st_last.fault = "fail_partial_output"
  /\ st_last.before["title"] = "A"
  /\ st_last.ret = "raise"
  /\ st_tags["title"] = "A"

(* ================================ C17 =================================== *)
\* C17 as stated: after a successful set_metadata the key holds the string
\* form of the value ("" for None) and every other tag is as before; a
\* successful delete_metadata removes the named key only.
C17_AsClaimed ==
  /\ (st_last.op = "set_metadata" /\ st_last.ret = "True") =>
       st_tags = [st_last.before EXCEPT ![st_last.key] =
                    IF st_last.value = PyNone THEN "" ELSE st_last.value.str]
  /\ (st_last.op = "delete_metadata" /\ st_last.ret = "True") =>
       st_tags = [st_last.before EXCEPT ![st_last.key] = NoVal]

\* C17: after a successful set_metadata the key holds str(value) when the
\* value is neither None nor the empty string and is absent otherwise, and
\* every other tag is as before; a successful delete_metadata removes the
\* named key, which was present, and nothing else.
C17_SingleChange ==
  /\ (st_last.op = "set_metadata" /\ st_last.ret = "True") =>
       st_tags = [st_last.before EXCEPT ![st_last.key] =
                    IF st_last.value \in {PyNone, PyStr("")}
                    THEN NoVal ELSE st_last.value.str]
  /\ (st_last.op = "delete_metadata" /\ st_last.ret = "True") =>
       /\ st_last.before[st_last.key] # NoVal
       /\ st_tags = [st_last.before EXCEPT ![st_last.key] = NoVal]

\* user sets the title of a finished file to the integer 7
C17_Witness ==
  /\ st_last.op = "set_metadata" /\ st_last.key = "title"
  /\ st_last.value = PyInt7 /\ st_last.ret = "True"
  /\ st_last.before["title"] = "A"
  /\ st_last.before["PQP:upload_state"] = "finished"
  /\ st_tags["title"] = "7"
  /\ st_tags["PQP:upload_state"] = "finished"

(* ================================ C18 =================================== *)
\* C18: after sync_metadata has succeeded twice in a row with the same
\* target and role, compare_metadata with that target returns equal
\* deltas only.
C18_AsClaimed ==
  (st_last.op = "sync_metadata" /\ st_last.streak = 2) =>
    \A prefixed_last \in BOOLEAN :
      \A delta \in compare_metadata(st_tags, st_last.target, st_last.cardinal,
                                    prefixed_last) :
        delta.operation = "E"

(* ================================ C19 =================================== *)
\* the tag a spelling stands for
LogicalKey(key) ==
  CASE key \in {"upload_state", "PQP:upload_state"} -> "upload_state"
    [] key \in {"note", "PQP:note"} -> "note"
    [] OTHER -> key

\* C19: compare_metadata returns deltas for keys the role may edit only,
\* and no two deltas for spellings of the same tag.
C19_AsClaimed ==
  st_last.op = "compare_metadata" =>
    /\ \A delta \in st_last.deltas : Authorized(delta.key, st_last.cardinal)
    /\ \A d1 \in st_last.deltas, d2 \in st_last.deltas :
         LogicalKey(d1.key) = LogicalKey(d2.key) => d1 = d2

(* ================================ C20 =================================== *)
\* the (key, value) pairs of a dict
PairSet(items) == {items[i] : i \in 1..Len(items)}

\* b is a with the value of one tag user may edit changed
OneEditableValueChanged(a, b) ==
  \E key \in {"title"}, v \in HashValues, w \in HashValues :
    /\ v # w
    /\ <<key, v>> \in PairSet(a)
    /\ PairSet(b) = (PairSet(a) \ {<<key, v>>}) \cup {<<key, w>>}

BothHashed == hs.prev.digest # NoVal /\ hs.last.digest # NoVal

\* C20: two files with the same tags, in whatever order, have the same
\* fingerprint, and two files that differ in the value of one tag user may
\* edit have different fingerprints.
C20_Fingerprint ==
  BothHashed =>
    /\ PairSet(hs.prev.items) = PairSet(hs.last.items)
         => hs.prev.digest = hs.last.digest
    /\ OneEditableValueChanged(hs.prev.items, hs.last.items)
         => hs.prev.digest # hs.last.digest

\* the same two tags in the two orders
C20_Witness ==
  /\ hs.prev.items = <<<<"title", "A">>, <<"PQP:upload_state", "B">>>>
  /\ hs.last.items = <<<<"PQP:upload_state", "B">>, <<"title", "A">>>>
  /\ hs.prev.digest = hs.last.digest
  /\ hs.last.digest # NoVal

\* the title changed from A to B next to a tag only system may edit
C20_WitnessChange ==
  /\ hs.prev.items = <<<<"upload_state", "A">>, <<"title", "A">>>>
  /\ hs.last.items = <<<<"upload_state", "A">>, <<"title", "B">>>>
  /\ hs.prev.digest # hs.last.digest

(* ================================ C21 =================================== *)
\* the items of a dict whose tag user may edit
EditablePairs(items) == {item \in PairSet(items) : item[1] = "title"}

\* C21: two files that differ only in tags user may not edit (upload_state
\* under its plain or its PQP: spelling) have the same fingerprint.
C21_AsClaimed ==
  (BothHashed /\ EditablePairs(hs.prev.items) = EditablePairs(hs.last.items))
    => hs.prev.digest = hs.last.digest

(* ------------------------- claims on the client ------------------------- *)
\* the last finished operation is an upload that entered the chunk loop
UploadRan ==
  yt.pc = "idle" /\ yt.last.op = "upload_video" /\ yt.last.ran

\* every chunk call of that upload failed with a retryable error
AllTransient == yt.last.attempts >= 1 /\ yt.last.transients = yt.last.attempts

ExhaustedAsError ==
  /\ yt.last.attempts = max_retries
  /\ yt.last.state = "error"
  /\ yt.last.error_message # ""

Completed == yt.last.state = "completed" /\ yt.last.video_id # ""

\* C22 as stated: with only transient failures exactly max_retries chunk
\* calls are made and the upload ends in error with a message; and when a
\* chunk call first succeeds as call N <= max_retries, exactly N calls are
\* made and the upload is completed with the remote id.
C22_AsClaimed ==
  UploadRan =>
    /\ AllTransient => ExhaustedAsError
    /\ yt.last.first_ok \in 1..max_retries =>
         yt.last.attempts = yt.last.first_ok /\ Completed

\* C22: with only transient failures exactly max_retries chunk calls are
\* made and the upload ends in error with a message; a file of one chunk
\* whose call first succeeds as call N <= max_retries takes exactly N calls
\* and ends completed with the remote id; in general the retry budget covers
\* the whole upload: it completes exactly when the call returning the last
\* chunk's response is reached, after fewer than max_retries transient
\* failures, in (transient failures + chunks) calls.
C22_RetryBound ==
  UploadRan =>
    /\ AllTransient => ExhaustedAsError
    /\ (yt.last.chunks = 1 /\ yt.last.first_ok \in 1..max_retries) =>
         yt.last.attempts = yt.last.first_ok /\ Completed
    /\ Completed =>
         /\ yt.last.transients < max_retries
         /\ yt.last.attempts = yt.last.transients + yt.last.chunks
    /\ yt.last.state = "completed" \/ yt.last.state = "error"
    /\ yt.last.state = "error" => yt.last.video_id = "" /\ yt.last.error_message # ""

\* an upload that met only transient failures and gave up
C22_Witness == UploadRan /\ AllTransient /\ yt.last.state = "error"

\* a one-chunk upload that succeeded on its last permitted call
C22_WitnessSuccess ==
  /\ UploadRan /\ yt.last.chunks = 1
  /\ yt.last.first_ok = max_retries /\ Completed

(* ------------------------- claims on the bridge ------------------------- *)
BridgeRunning == br.pc \in {"loop", "return", "raise"}

\* the server answered every chunk call with a transient error
BridgeAllTransient == br.calls >= 1 /\ br.transients = br.calls

RECURSIVE BackoffSum(_)
BackoffSum(i) == IF i = 0 THEN 0 ELSE BackoffSum(i - 1) + _backoff(i)

\* C23 as stated: against a server that answers every chunk call with a
\* transient error exactly MAX_RETRIES chunk calls are made before the
\* error is raised.
C23_AsClaimed ==
  (br.pc = "raise" /\ BridgeAllTransient) => br.calls = MAX_RETRIES

\* C23: a transient error makes the client sleep min(60, 2^i) seconds and
\* call next_chunk again for the same chunk, at most MAX_RETRIES times in
\* one upload; against a server that answers every chunk call with a
\* transient error MAX_RETRIES retries, that is MAX_RETRIES + 1 chunk calls,
\* are made before the error is raised.
C23_RetryCeiling ==
  BridgeRunning =>
    /\ br.attempt <= MAX_RETRIES
    /\ br.slept = BackoffSum(br.attempt)
    /\ br.attempt > 0 => br.delay = _backoff(br.attempt) /\ br.delay <= 60
    /\ br.pc # "raise" =>
         /\ br.transients = br.attempt
         /\ br.chunks - br.chunks_left = br.calls - br.transients
    /\ (br.pc = "raise" /\ BridgeAllTransient) =>
         br.attempt = MAX_RETRIES /\ br.calls = MAX_RETRIES + 1

\* the upload gave up against a server that only answers transient errors
C23_Witness == br.pc = "raise" /\ BridgeAllTransient

\* an operation has finished and none is under way
LastOp == yt.pc = "idle" /\ yt.last.op # "none"

\* the operations that go through the quota guard
Guarded == yt.last.operation \in ChargedOps

LastCost == QuotaCost(yt.last.operation)

ReportsFailure == yt.last.ret \in {"False", "None", "error"}

\* C24: an operation that has a quota cost issues its API call only if
\* used_today + cost <= daily_limit held at its check; otherwise it is
\* blocked before any API call and reports failure; used_today never
\* exceeds daily_limit.
C24_QuotaGuard ==
  /\ yt.quota.used_today <= daily_limit
  /\ (yt.pc = "uploading" /\ yt.up.attempts > 0) =>
       yt.up.at_check + QuotaCost("video_insert") <= daily_limit
  /\ (LastOp /\ Guarded) =>
       /\ yt.last.api_calls > 0 =>
            /\ yt.last.check = "pass"
            /\ yt.last.at_check + LastCost <= daily_limit
       /\ yt.last.check = "block" =>
            /\ yt.last.at_check + LastCost > daily_limit
            /\ yt.last.api_calls = 0
            /\ ReportsFailure

\* an operation was blocked by the guard
C24_Witness == LastOp /\ Guarded /\ yt.last.check = "block"

\* an upload passed the guard with nothing to spare
C24_WitnessBoundary ==
  /\ LastOp /\ yt.last.op = "upload_video" /\ yt.last.api_ok
  /\ yt.quota.used_today = daily_limit

\* C25: used_today and the per-operation counters grow only when the API
\* call of the operation has returned, and then by the cost of that
\* operation and by one; an operation rejected by validation, blocked by
\* the guard or whose API call failed leaves them alone (the daily reset of
\* the guard can only lower used_today).
C25_ConsumedOnSuccess ==
  LastOp =>
    /\ yt.last.at_check <= yt.last.before.used_today
    /\ yt.quota.used_today > yt.last.at_check =>
         /\ yt.last.api_ok
         /\ yt.quota.used_today = yt.last.at_check + LastCost
    /\ yt.quota.operations # yt.last.before.operations =>
         /\ yt.last.api_ok
         /\ yt.quota.operations =
              [yt.last.before.operations EXCEPT ![yt.last.operation] = @ + 1]
    /\ ~yt.last.api_ok =>
         /\ yt.quota.used_today = yt.last.at_check
         /\ yt.quota.operations = yt.last.before.operations
    /\ (yt.last.api_ok /\ Guarded) =>
         yt.quota.used_today = yt.last.at_check + LastCost

\* a guarded operation whose API call failed
C25_Witness ==
  /\ LastOp /\ Guarded /\ yt.last.check = "pass"
  /\ yt.last.api_calls > 0 /\ ~yt.last.api_ok

\* a guarded operation whose API call returned
C25_WitnessSuccess ==
  /\ LastOp /\ Guarded /\ yt.last.api_ok
  /\ yt.last.before.used_today > 0 /\ yt.last.at_check > 0

AuxiliaryOps ==
  {"set_thumbnail", "get_video_info", "delete_video",
   "update_video_metadata", "get_channel_info"}

LastAux == LastOp /\ yt.last.op \in AuxiliaryOps

\* the quota left does not cover the operation
Exhausted == yt.last.at_check + LastCost > daily_limit

\* C26: every auxiliary operation checks the quota first, calls the API only
\* if the check passed and consumes quota after a successful call; none
\* issues an API call while the quota is exhausted.
C26_AsClaimed ==
  LastAux =>
    /\ yt.last.api_calls > 0 => yt.last.check = "pass" /\ ~Exhausted
    /\ yt.last.api_ok =>
         yt.quota.used_today = yt.last.at_check + LastCost

\* the same for the auxiliary operations other than delete_video
C26_GuardedOnes ==
  (LastAux /\ yt.last.op # "delete_video") =>
    /\ yt.last.api_calls > 0 => yt.last.check = "pass" /\ ~Exhausted
    /\ yt.last.api_ok =>
         yt.quota.used_today = yt.last.at_check + LastCost

\* C27: no auxiliary operation lets an exception out: on any failure of the
\* API call get_video_info and get_channel_info return None, and
\* update_video_metadata, set_thumbnail and delete_video return False.
C27_AsClaimed ==
  (LastAux /\ ~yt.last.api_ok) =>
    IF yt.last.op \in {"get_video_info", "get_channel_info"}
    THEN yt.last.ret = "None"
    ELSE yt.last.ret = "False"

(* ------------------------- claims on the session ------------------------ *)
\* the job upload_once is working on
CurrentJob == ss.run.jobs[ss.run.idx]

\* attempts as persisted for a file
PersistedAttempts(disk, path) == _load_state(disk, path).attempts

C28_Order ==
  /\ ss.pc = "client" =>
       /\ ss.last.op = "begin"
       /\ CurrentJob.state = "uploading"
       /\ CurrentJob.attempts = ss.last.before.attempts + 1
       /\ CurrentJob.file \in DOMAIN ss.disk.state
       /\ ss.disk.state[CurrentJob.file] = Lifecycle(CurrentJob)
  /\ ss.last.op = "upload_once" =>
       /\ ss.last.job.attempts = ss.last.before.attempts + 1
       /\ ss.disk.state[ss.last.file] = Lifecycle(ss.last.job)
       /\ ss.last.ret <=> ss.last.outcome \in {"ok", "thumb_raises"}
       /\ ss.last.ret =>
            ss.last.job.state = "done" /\ ss.last.job.yt_id # ""
       /\ ~ss.last.ret =>
            /\ ss.last.job.state = "failed"
            /\ ss.last.job.last_msg = ErrorText(ss.last.outcome)
            /\ ss.last.job.last_msg # ""

C28_NoDecrease ==
  \A path \in Files :
    PersistedAttempts(ss'.disk, path) >= PersistedAttempts(ss.disk, path)

\* C28: upload_once marks the job uploading with attempts one higher and
\* persists that before the first client call; when the calls return the
\* job ends done with the remote id, when one raises it ends failed with the
\* text of the error as last_msg; no command ever lowers the persisted
\* attempts of a file.
C28_Lifecycle == []C28_Order /\ [][C28_NoDecrease]_allVars

\* an upload_once that failed on a file that had failed before
C28_Witness ==
  /\ ss.last.op = "upload_once" /\ ~ss.last.ret
  /\ ss.last.before.state = "failed" /\ ss.last.job.attempts = 2

\* an upload_once about to make its first client call
C28_WitnessBefore == ss.pc = "client" /\ CurrentJob.attempts = 2

SameLifecycles(jobs1, jobs2) ==
  /\ Len(jobs1) = Len(jobs2)
  /\ \A i \in 1..Len(jobs1) : Lifecycle(jobs1[i]) = Lifecycle(jobs2[i])

C29_Step ==
  /\ (ss.pc = "loop" /\ (CurrentJob.state = "done" \/ ss.run.cfg.dry_run)) =>
       /\ ss'.disk = ss.disk
       /\ ss'.run.calls = ss.run.calls
       /\ ss'.pc # "client"
       /\ SameLifecycles(ss'.run.jobs, ss.run.jobs)
  /\ (ss.pc = "loop" /\ ss'.pc = "client") =>
       CurrentJob.state # "done" /\ ~ss.run.cfg.dry_run
  /\ (ss.pc # "idle" /\ ss'.run.calls # ss.run.calls) =>
       /\ ss.pc = "client"
       /\ ss.run.mode = "session" =>
            CurrentJob.state = "uploading" /\ ~ss.run.cfg.dry_run

\* C29: run_session calls the client for a job only if the job is not done
\* and the session is no dry-run; skipping a done job changes no persisted
\* record and no lifecycle field, and a dry-run makes no client call and
\* changes no lifecycle field, in memory or persisted.
C29_SkipAndDryRun == [][C29_Step]_allVars

\* a done job was skipped
C29_Witness == ss.last.op = "skip" /\ ss.run.mode = "session"

\* a job was handled in a dry-run
C29_WitnessDry == ss.last.op = "dry" /\ ss.run.cfg.dry_run

\* C30: when a job is started in a session and it is not the first one
\* started, at least interval_min minutes of throttle wait lie between the
\* two starts, 15 more seconds if the job before failed; a session that
\* has started k jobs has made at least k-1 throttle waits.
C30_Throttle ==
  ss.run.mode = "session" =>
    /\ ss.run.waits >= ss.run.started - 1
    /\ ss.run.started >= 2 =>
         /\ ss.run.gap_at_start >= ss.run.cfg.interval_min * 60
         /\ ss.run.after_failure =>
              ss.run.gap_at_start = ss.run.cfg.interval_min * 60 + 15

\* a second job was started after the first one failed
C30_Witness ==
  /\ ss.run.mode = "session" /\ ss.run.started = 2
  /\ ss.run.after_failure /\ ss.run.cfg.interval_min = 65

InSession == ss.run.mode = "session"

Cap == ss.run.cfg.max_uploads

\* run_session has returned
SessionOver == InSession /\ ss.pc = "idle"

\* every job of the list went through the loop body
AllHandled == ss.last.op # "break" /\ ss.run.idx = Len(ss.run.jobs) + 1

\* C33 as stated: with a cap M > 0 at most M jobs are started in a session
\* and at most M become done; with M = 0 every job is handled.
C33_AsClaimed ==
  InSession =>
    /\ Cap > 0 => ss.run.started <= Cap /\ ss.run.done <= Cap
    /\ (Cap = 0 /\ SessionOver) => AllHandled

\* C33: the cap counts the uploads that succeeded in the session: with a
\* cap M > 0 no job is started once M jobs have become done, so at most M
\* become done, and the loop is left early only then; jobs that failed and
\* jobs of a dry-run do not count.  With M = 0 every job is handled.
C33_Cap ==
  InSession =>
    /\ Cap > 0 =>
         /\ ss.run.done <= Cap
         /\ ss.pc = "client" => ss.run.done < Cap
         /\ ss.last.op = "dry" => ss.run.done < Cap
    /\ ss.last.op = "break" => Cap > 0 /\ ss.run.done = Cap
    /\ (SessionOver /\ (Cap = 0 \/ ss.run.done < Cap)) => AllHandled

\* the session was left early because the cap was reached
C33_Witness == InSession /\ ss.last.op = "break"

\* more jobs than the cap were started, the first one having failed
C33_WitnessFailuresUncounted ==
  InSession /\ Cap = 1 /\ ss.run.started = 2 /\ ss.pc = "client"

\* upload_once has returned
UploadOnceReturned == ss.last.op = "upload_once"

\* C40: when upload_once returns, the state of the job, in memory and in
\* the state file, is done or failed; the return value is True exactly when
\* it is done; a done job carries the remote id the upload returned; a
\* thumbnail call that raises does not make the job failed.
C40_Outcome ==
  UploadOnceReturned =>
    LET job == ss.last.job
        stored == _load_state(ss.disk, ss.last.file)
    IN
    /\ job.state \in {"done", "failed"}
    /\ stored.state = job.state
    /\ ss.last.ret <=> job.state = "done"
    /\ job.state = "done" => job.yt_id = "id" /\ stored.yt_id = "id"
    /\ ss.last.outcome = "thumb_raises" => job.state = "done"

\* upload_once returned after a thumbnail call that raised
C40_Witness ==
  UploadOnceReturned /\ ss.last.outcome = "thumb_raises" /\ ss.last.ret

\* upload_once is about to call bridge.upload_video for the current job
AboutToUpload == ss.pc = "client"

\* C36: no run of the session engine uploads a file whose job already has
\* a remote id recorded, whatever failed after that upload.
C36_AsClaimed ==
  (AboutToUpload /\ InSession) => ss.last.before.yt_id = ""

\* C31: run_session never ends with an exception because of one job: it
\* marks the job failed and goes on.
C31_AsClaimed == InSession => ss.last.op # "raised"

\* C37: a start hands every job it was asked for (the selected files, or
\* all files of the directory) that is not done to run_session; a job left
\* uploading by an interrupted session is among them.
C37_AsClaimed ==
  ss.last.op = "start" =>
    \A path \in ss.last.asked :
      _load_state(ss.disk, path).state # "done" => path \in ss.last.listed

\* C32: every mark persists at once, so after a crash at any point of a
\* session every job other than the one in flight has its last outcome in
\* the state store.
C32_AsClaimed ==
  ss.pc = "crashed" =>
    \A path \in DOMAIN ss.last.recorded \ {ss.last.file} :
      /\ path \in DOMAIN ss.disk.state
      /\ ss.disk.state[path] = ss.last.recorded[path]

\* what holds: a mark that returned has persisted (checked at the return
\* of each mark)
C32_MarkPersists ==
  ss.last.op = "mark" =>
    \A path \in DOMAIN ss.last.recorded :
      /\ path \in DOMAIN ss.disk.state
      /\ ss.disk.state[path] = ss.last.recorded[path]

ProviderUploading == yt.pc = "uploading"
BridgeUploading == br.pc = "loop"
NonTransient == {"http_error", "other_error"}

\* C35: a non-transient error of a chunk call ends the upload at once: the
\* step that meets it makes no backoff wait, the next step is the return
\* with an error state (provider) or the exception (bridge) with no chunk
\* call after it.
C35_ProviderStep ==
  /\ (ProviderUploading /\ yt.up.error = "none" /\ yt'.pc = "uploading"
      /\ yt'.up.error # "none")
       => /\ yt'.up.error \in NonTransient
          /\ yt'.up.attempts = yt.up.attempts + 1
          /\ yt'.up.retry_count = yt.up.retry_count
          /\ yt'.up.transients = yt.up.transients
  /\ (ProviderUploading /\ yt.up.error # "none")
       => /\ yt'.pc = "idle"
          /\ yt'.last.op = "upload_video"
          /\ yt'.last.state = "error"
          /\ yt'.last.error_message # ""
          /\ yt'.last.video_id = ""
          /\ yt'.last.attempts = yt.up.attempts
          /\ yt'.last.transients = yt.up.transients
          /\ yt'.quota = yt.quota

C35_BridgeStep ==
  /\ (BridgeUploading /\ br'.error \in NonTransient)
       => /\ br'.pc = "raise"
          /\ br'.calls = br.calls + 1
          /\ br'.slept = br.slept
          /\ br'.attempt = br.attempt
  /\ (br.pc = "raise")
       => /\ br'.pc = "loop"
          /\ br'.calls = 0
          /\ br'.uploads = br.uploads + 1

C35_AbortsAtOnce == [][C35_ProviderStep /\ C35_BridgeStep]_allVars

\* the provider returned after a non-transient error that followed a retry
C35_Witness ==
  /\ yt.pc = "idle"
  /\ yt.last.op = "upload_video"
  /\ yt.last.ran
  /\ yt.last.state = "error"
  /\ yt.last.transients \in 1..(max_retries - 1)

\* the bridge raised a non-transient error after a retry
C35_WitnessBridge ==
  br.pc = "raise" /\ br.error \in NonTransient /\ br.transients > 0

\* the chunk calls and the retries of the upload under way stay within the
\* ceilings: each call either uploads one of the chunks, is retried, or ends
\* the upload
C39_Bound ==
  /\ ProviderUploading =>
       /\ yt.up.retry_count = yt.up.transients
       /\ yt.up.retry_count <= max_retries
       /\ yt.up.chunks_left >= 0
       /\ yt.up.attempts <= yt.up.chunks + max_retries - 1
  /\ br.pc \in {"loop", "return", "raise"} =>
       /\ br.attempt <= MAX_RETRIES
       /\ br.chunks_left >= 0
       /\ br.calls <= br.chunks + MAX_RETRIES

\* C39: every resumable upload terminates, whatever the outcomes of its
\* chunk calls: the loop of either client is left after finitely many
\* calls, and the retries over the whole upload stay within the ceiling.
C39_Terminates ==
  /\ []C39_Bound
  /\ ProviderUploading ~> yt.pc = "idle"
  /\ BridgeUploading ~> br.pc \in {"return", "raise"}

\* the bridge gave up after the largest possible number of chunk calls
C39_Witness ==
  br.pc = "raise" /\ br.chunks > 1 /\ br.calls = br.chunks + MAX_RETRIES

\* the provider returned after the largest possible number of chunk calls
C39_WitnessProvider ==
  /\ yt.pc = "idle"
  /\ yt.last.op = "upload_video"
  /\ yt.last.ran
  /\ yt.last.chunks > 1
  /\ yt.last.attempts = yt.last.chunks + max_retries - 1

PassDone == res # NoResult

\* C34: after every reconciliation pass on a file the upload_state tag
\* stored in the file equals the status the pass returned, and the stored
\* error_message is empty unless that status is hindered.
C34_AsClaimed ==
  PassDone =>
    /\ tags["upload_state"] = res.local_status
    /\ res.local_status # "hindered" => ~Truthy(tags["error_message"])

\* what holds: a pass that ends without an exception has written its status
C34_NormalPass ==
  Normal =>
    /\ tags["upload_state"] = res.local_status
    /\ res.local_status # "hindered" => ~Truthy(tags["error_message"])

LastIsSync == st_last.op = "sync_metadata"

====
